---- MODULE Spec2Model ----
(***************************************************************************)
(* pixstage: dirty-tile tracking (src/src/dirty.rs), rectangles            *)
(* (src/src/rect.rs) and the pixel surfaces that upload dirty regions      *)
(* (src/src/argb1555.rs, src/src/indexed.rs).                              *)
(*                                                                         *)
(* The specifications share the definitions of the tracker:                *)
(*   Spec         a DirtyTiles value driven through its own methods, with  *)
(*                take_regions called with any cap;                        *)
(*   SpecSurface  a PixstageArgb1555 (CPU buffer, tracker, GPU texture)    *)
(*                driven through its public methods, in a window that      *)
(*                keeps its size and scaling mode;                         *)
(*   SpecIndexed  the same for a PixstageIndexed;                          *)
(*   SpecScaling  a surface whose window and scaling mode change;          *)
(*   SpecMark     a DirtyTiles value marked with recorded arguments;       *)
(*   SpecTiles    DirtyTiles::new at the ends of the u32 range;            *)
(*   SpecPalette  a PixstageIndexed whose palette changes;                 *)
(*   SpecCompute  compute_scaling and window_pos_to_pixel (src/src/        *)
(*                scaling.rs) applied to drawn sizes and positions;        *)
(*   SpecFrame    a PixstageArgb1555 whose buffer has more tiles than      *)
(*                render() uploads regions in one frame;                   *)
(*   SpecRect     Rect::union and Rect::clamp_to applied to drawn          *)
(*                rectangles and bounds;                                   *)
(*   SpecGrid     a DirtyTiles value whose grid has as many tiles as a u32 *)
(*                has values.                                              *)
(***************************************************************************)
EXTENDS Integers, Naturals, Sequences, FiniteSets, TLC

(***************************************************************************)
(* Bounds of the model.                                                    *)
(***************************************************************************)
\* u32 is modelled at WordBits bits: saturation and wrap-around happen at
\* U32_MAX = 2^WordBits - 1 instead of 2^32 - 1.
WordBits == 7
\* SpecCompute scales buffers of up to MaxBufSide and windows of up to
\* MaxWinSide pixels a side (and the sizes of the documented examples)
MaxBufSide == 3
MaxWinSide == 6
\* a tracker of Spec covers at most MaxArea pixels (width * height)
MaxArea == 6
\* tile edges range over 1..MaxTile (the surfaces pass 32)
MaxTile == 2
\* take_regions caps of Spec range over 0..MaxRegions
MaxRegions == 2
\* a surface buffer is at most MaxSide wide and high and holds at most
\* MaxPixels pixels
MaxSide == 2
MaxPixels == 4
\* the window surface is 1 x 1 or MaxSurfaceW x MaxSurfaceH
MaxSurfaceW == 3
MaxSurfaceH == 2
\* a small cap render() also drains with, so that the collapse happens in a
\* small tile grid
SmallCap == 1
\* the buffer of SpecFrame is CheckerW x CheckerH pixels in tiles of one
\* pixel: its checkerboard has more than MAX_REGIONS separate tiles
CheckerW == 26
CheckerH == 5
\* SpecRect draws horizontal coordinates, extents and bounds from
\* 0..MaxRectSide (and the ends of the u32 range)
MaxRectSide == 2

U32_MAX == 2^WordBits - 1
U32 == 0..U32_MAX

Min(a, b) == IF a <= b THEN a ELSE b
Max(a, b) == IF a >= b THEN a ELSE b

\* u32::saturating_add, u32::saturating_sub, and wrapping u32 arithmetic
saturating_add(a, b) == IF a + b > U32_MAX THEN U32_MAX ELSE a + b
saturating_sub(a, b) == IF a < b THEN 0 ELSE a - b
wrap_u32(n) == n % (U32_MAX + 1)

(***************************************************************************)
(* Rect (src/src/rect.rs).  None is the absent Option.                     *)
(***************************************************************************)
None == [none |-> TRUE]

Rect(x, y, w, h) == [x |-> x, y |-> y, width |-> w, height |-> h]

RectNew(x, y, w, h) == IF w = 0 \/ h = 0 THEN None ELSE Rect(x, y, w, h)

from_point(x, y) == Rect(x, y, 1, 1)

right(r) == saturating_add(r.x, r.width)

bottom(r) == saturating_add(r.y, r.height)

\* union, starting at the origin of the first rectangle
union_from_first(a, b) ==
    LET x0 == a.x
        y0 == a.y
        x1 == Max(right(a), right(b))
        y1 == Max(bottom(a), bottom(b))
    IN  Rect(x0, y0, Max(saturating_sub(x1, x0), 1), Max(saturating_sub(y1, y0), 1))

union(a, b) ==
    LET x0 == Min(a.x, b.x)
        y0 == Min(a.y, b.y)
        x1 == Max(right(a), right(b))
        y1 == Max(bottom(a), bottom(b))
    IN  Rect(x0, y0, Max(saturating_sub(x1, x0), 1), Max(saturating_sub(y1, y0), 1))

\* clamp_to, cutting the extent at the bounds without regard to the origin
clamp_to_extent_only(r, w, h) ==
    IF w = 0 \/ h = 0 THEN None
    ELSE IF r.x >= w \/ r.y >= h THEN None
    ELSE RectNew(r.x, r.y, Min(r.width, w), Min(r.height, h))

clamp_to(r, w, h) ==
    IF w = 0 \/ h = 0 THEN None
    ELSE IF r.x >= w \/ r.y >= h THEN None
    ELSE LET rt == Min(right(r), w)
             bt == Min(bottom(r), h)
         IN  RectNew(r.x, r.y, saturating_sub(rt, r.x), saturating_sub(bt, r.y))

(***************************************************************************)
(* DirtyTiles (src/src/dirty.rs).  A tracker is a record; bits is the set  *)
(* of set bit positions of the Vec<u64> (position = 64 * word + bit) and   *)
(* words is the length of that vector.                                     *)
(***************************************************************************)
tiles_dim(width, height, tile_size) ==
    LET tx == wrap_u32(width + tile_size - 1) \div tile_size
        ty == wrap_u32(height + tile_size - 1) \div tile_size
    IN  <<Max(tx, 1), Max(ty, 1)>>

BitPos(d, tx, ty) ==
    LET tile_index == ty * d.tiles_x + tx
        word == tile_index \div 64
        bit == tile_index % 64
    IN  64 * word + bit

DirtyNew(width, height, tile_size) ==
    LET ts == Max(tile_size, 1)
        td == tiles_dim(width, height, ts)
        bit_len == td[1] * td[2]
    IN  [tile_size |-> ts, tiles_x |-> td[1], tiles_y |-> td[2],
         bits |-> {}, words |-> (bit_len + 63) \div 64,
         dirty_tiles |-> 0, full |-> FALSE, width |-> width, height |-> height]

\* resize, keeping the tile grid of the old size
DirtyResize_stale_grid(d, width, height) ==
    [d EXCEPT !.width = width, !.height = height,
              !.bits = {}, !.dirty_tiles = 0, !.full = TRUE]

DirtyResize(d, width, height) ==
    LET td == tiles_dim(width, height, d.tile_size)
        bit_len == td[1] * td[2]
    IN  [d EXCEPT !.width = width, !.height = height,
                  !.tiles_x = td[1], !.tiles_y = td[2],
                  !.bits = {}, !.words = (bit_len + 63) \div 64,
                  !.dirty_tiles = 0, !.full = TRUE]

\* mark_full leaving the flag as it is
mark_full_forgotten(d) == d

mark_full(d) == [d EXCEPT !.full = TRUE]

\* clear, forgetting the full flag
clear_keeps_full(d) == [d EXCEPT !.bits = {}, !.dirty_tiles = 0]

clear(d) == [d EXCEPT !.bits = {}, !.dirty_tiles = 0, !.full = FALSE]

\* set_tile, counting every call
set_tile_counts_calls(d, tx, ty) ==
    IF tx >= d.tiles_x \/ ty >= d.tiles_y THEN d
    ELSE [d EXCEPT !.bits = @ \cup {BitPos(d, tx, ty)},
                   !.dirty_tiles = saturating_add(@, 1)]

set_tile(d, tx, ty) ==
    IF tx >= d.tiles_x \/ ty >= d.tiles_y THEN d
    ELSE IF BitPos(d, tx, ty) \notin d.bits
         THEN [d EXCEPT !.bits = @ \cup {BitPos(d, tx, ty)},
                        !.dirty_tiles = saturating_add(@, 1)]
         ELSE d

is_tile_set(d, tx, ty) == BitPos(d, tx, ty) \in d.bits

\* the two nested loops of mark_rect: rows y0..=y1, in each row tiles x0..=x1
RECURSIVE SetTiles(_, _, _, _, _, _)
SetTiles(d, tx, ty, x0, x1, y1) ==
    IF ty > y1 THEN d
    ELSE IF tx > x1 THEN SetTiles(d, x0, ty + 1, x0, x1, y1)
    ELSE SetTiles(set_tile(d, tx, ty), tx + 1, ty, x0, x1, y1)

\* mark_rect, setting only the first tile of each row of the rectangle
mark_rect_first_column(d, rect) ==
    IF d.full THEN d
    ELSE LET c == clamp_to(rect, d.width, d.height)
         IN  IF c = None THEN d
             ELSE LET tile == d.tile_size
                      x0 == c.x \div tile
                      y0 == c.y \div tile
                      y1 == (c.y + c.height - 1) \div tile
                  IN  SetTiles(d, x0, y0, x0, x0, y1)

\* mark_rect, setting tiles whether or not the tracker is fully dirty
mark_rect_ignores_full(d, rect) ==
    LET c == clamp_to(rect, d.width, d.height)
    IN  IF c = None THEN d
        ELSE LET tile == d.tile_size
                 x0 == c.x \div tile
                 y0 == c.y \div tile
                 x1 == (c.x + c.width - 1) \div tile
                 y1 == (c.y + c.height - 1) \div tile
             IN  SetTiles(d, x0, y0, x0, x1, y1)

mark_rect(d, rect) ==
    IF d.full THEN d
    ELSE LET c == clamp_to(rect, d.width, d.height)
         IN  IF c = None THEN d
             ELSE LET tile == d.tile_size
                      x0 == c.x \div tile
                      y0 == c.y \div tile
                      x1 == (c.x + c.width - 1) \div tile
                      y1 == (c.y + c.height - 1) \div tile
                  IN  SetTiles(d, x0, y0, x0, x1, y1)

mark_point(d, x, y) ==
    IF d.full \/ x >= d.width \/ y >= d.height THEN d
    ELSE set_tile(d, x \div d.tile_size, y \div d.tile_size)

\* the run scan of one tile row: the maximal runs of set tiles, as <<x, width>>
RECURSIVE RunEnd(_, _, _)
RunEnd(d, tx, ty) ==
    IF tx < d.tiles_x /\ is_tile_set(d, tx, ty) THEN RunEnd(d, tx + 1, ty) ELSE tx

RECURSIVE RowRuns(_, _, _)
RowRuns(d, tx, ty) ==
    IF tx >= d.tiles_x THEN << >>
    ELSE IF ~is_tile_set(d, tx, ty) THEN RowRuns(d, tx + 1, ty)
    ELSE LET start == tx
             end == RunEnd(d, tx + 1, ty)
         IN  <<<<start * d.tile_size, (end - start) * d.tile_size>>>>
             \o RowRuns(d, end, ty)

\* prev.sort_by_key(|rect| rect.x): a stable sort by x
RECURSIVE InsertByX(_, _)
InsertByX(s, r) ==
    IF s = << >> THEN <<r>>
    ELSE IF s[Len(s)].x <= r.x THEN Append(s, r)
    ELSE Append(InsertByX(SubSeq(s, 1, Len(s) - 1), r), s[Len(s)])

RECURSIVE SortByX(_)
SortByX(s) ==
    IF s = << >> THEN << >>
    ELSE InsertByX(SortByX(SubSeq(s, 1, Len(s) - 1)), s[Len(s)])

\* the inner `while prev_idx < prev.len() && prev[prev_idx].x < x` loop:
\* the index it stops at
RECURSIVE SkipBefore(_, _, _)
SkipBefore(prev, i, x) ==
    IF i <= Len(prev) /\ prev[i].x < x THEN SkipBefore(prev, i + 1, x) ELSE i

\* the loop extending a rectangle of the row above that starts where the run
\* starts, whatever its width
RECURSIVE MergeRuns_any_width(_, _, _, _, _, _, _)
MergeRuns_any_width(prev, runs, k, i, y, tile, acc) ==
    IF k > Len(runs)
    THEN [out |-> acc.out \o SubSeq(prev, i, Len(prev)), next_prev |-> acc.next_prev]
    ELSE LET x == runs[k][1]
             width == runs[k][2]
             j == SkipBefore(prev, i, x)
             pushed == acc.out \o SubSeq(prev, i, j - 1)
         IN  IF j <= Len(prev) /\ prev[j].x = x
                /\ prev[j].y + prev[j].height = y
             THEN MergeRuns_any_width(prev, runs, k + 1, j + 1, y, tile,
                     [out |-> pushed,
                      next_prev |-> Append(acc.next_prev,
                          [prev[j] EXCEPT !.height = saturating_add(@, tile)])])
             ELSE MergeRuns_any_width(prev, runs, k + 1, j, y, tile,
                     [out |-> pushed,
                      next_prev |-> Append(acc.next_prev, Rect(x, y, width, tile))])

\* the loop never extending a rectangle of the row above
RECURSIVE MergeRuns_never(_, _, _, _, _, _, _)
MergeRuns_never(prev, runs, k, i, y, tile, acc) ==
    IF k > Len(runs)
    THEN [out |-> acc.out \o SubSeq(prev, i, Len(prev)), next_prev |-> acc.next_prev]
    ELSE LET x == runs[k][1]
             width == runs[k][2]
             j == SkipBefore(prev, i, x)
             pushed == acc.out \o SubSeq(prev, i, j - 1)
         IN  MergeRuns_never(prev, runs, k + 1, j, y, tile,
                     [out |-> pushed,
                      next_prev |-> Append(acc.next_prev, Rect(x, y, width, tile))])

\* the `for (x, width) in runs` loop of one row, from run k and prev index i
\* (1-based), with the rectangles pushed so far
RECURSIVE MergeRuns(_, _, _, _, _, _, _)
MergeRuns(prev, runs, k, i, y, tile, acc) ==
    IF k > Len(runs)
    THEN [out |-> acc.out \o SubSeq(prev, i, Len(prev)), next_prev |-> acc.next_prev]
    ELSE LET x == runs[k][1]
             width == runs[k][2]
             j == SkipBefore(prev, i, x)
             pushed == acc.out \o SubSeq(prev, i, j - 1)
         IN  IF j <= Len(prev) /\ prev[j].x = x /\ prev[j].width = width
                /\ prev[j].y + prev[j].height = y
             THEN MergeRuns(prev, runs, k + 1, j + 1, y, tile,
                     [out |-> pushed,
                      next_prev |-> Append(acc.next_prev,
                          [prev[j] EXCEPT !.height = saturating_add(@, tile)])])
             ELSE MergeRuns(prev, runs, k + 1, j, y, tile,
                     [out |-> pushed,
                      next_prev |-> Append(acc.next_prev, Rect(x, y, width, tile))])

\* the sweep, putting the rectangles still open after the last row first
RECURSIVE Sweep_open_first(_, _, _, _)
Sweep_open_first(d, ty, out, prev) ==
    IF ty >= d.tiles_y THEN prev \o out
    ELSE LET m == MergeRuns(SortByX(prev), RowRuns(d, 0, ty), 1, 1,
                            ty * d.tile_size, d.tile_size,
                            [out |-> out, next_prev |-> << >>])
         IN  Sweep_open_first(d, ty + 1, m.out, m.next_prev)

\* the `for ty in 0..self.tiles_y` loop, followed by out.extend(prev)
RECURSIVE Sweep(_, _, _, _)
Sweep(d, ty, out, prev) ==
    IF ty >= d.tiles_y THEN out \o prev
    ELSE LET m == MergeRuns(SortByX(prev), RowRuns(d, 0, ty), 1, 1,
                            ty * d.tile_size, d.tile_size,
                            [out |-> out, next_prev |-> << >>])
         IN  Sweep(d, ty + 1, m.out, m.next_prev)

\* the clamp loop and out.retain(..)
RECURSIVE ClampAll(_, _, _)
ClampAll(s, w, h) ==
    IF s = << >> THEN << >>
    ELSE LET c == clamp_to(Head(s), w, h)
             r == IF c = None THEN [Head(s) EXCEPT !.width = 0, !.height = 0] ELSE c
         IN  (IF r.width > 0 /\ r.height > 0 THEN <<r>> ELSE << >>)
             \o ClampAll(Tail(s), w, h)

\* the rectangles of the sweep, clamped, before the cap is applied
Fragments(d) == ClampAll(Sweep(d, 0, << >>, << >>), d.width, d.height)

\* merged = out[0]; for rect in out.iter().skip(1) { merged = merged.union(*rect) }
RECURSIVE MergeAll(_, _)
MergeAll(merged, rest) ==
    IF rest = << >> THEN merged ELSE MergeAll(union(merged, Head(rest)), Tail(rest))

\* no cap: the rectangles of the sweep as they are
Collapse_uncapped(out, max_regions) == out

\* the cap, keeping the first rectangle instead of the union
Collapse_first(out, max_regions) ==
    IF Len(out) > max_regions THEN <<out[1]>> ELSE out

Collapse(out, max_regions) ==
    IF Len(out) > max_regions THEN <<MergeAll(out[1], Tail(out))>> ELSE out

\* take_regions, looking at the dirty-tile counter before the full flag
take_regions_counter_first(d, max_regions) ==
    IF d.width = 0 \/ d.height = 0
    THEN [d |-> clear(d), out |-> << >>, frags |-> << >>]
    ELSE IF d.dirty_tiles = 0
    THEN [d |-> clear(d), out |-> << >>, frags |-> << >>]
    ELSE IF d.full
    THEN [d |-> clear(d), out |-> <<Rect(0, 0, d.width, d.height)>>, frags |-> << >>]
    ELSE [d |-> clear(d), out |-> Collapse(Fragments(d), max_regions),
          frags |-> Fragments(d)]

\* take_regions: the tracker after the call, the returned list, and the
\* list the sweep produced before the cap (empty on the early returns)
\* take_regions without the early return of a zero-sized buffer
take_regions_any_size(d, max_regions) ==
    IF d.full
    THEN [d |-> clear(d), out |-> <<Rect(0, 0, d.width, d.height)>>, frags |-> << >>]
    ELSE IF d.dirty_tiles = 0
    THEN [d |-> d, out |-> << >>, frags |-> << >>]
    ELSE [d |-> clear(d), out |-> Collapse(Fragments(d), max_regions),
          frags |-> Fragments(d)]

take_regions(d, max_regions) ==
    IF d.width = 0 \/ d.height = 0
    THEN [d |-> clear(d), out |-> << >>, frags |-> << >>]
    ELSE IF d.full
    THEN [d |-> clear(d), out |-> <<Rect(0, 0, d.width, d.height)>>, frags |-> << >>]
    ELSE IF d.dirty_tiles = 0
    THEN [d |-> d, out |-> << >>, frags |-> << >>]
    ELSE [d |-> clear(d), out |-> Collapse(Fragments(d), max_regions),
          frags |-> Fragments(d)]

(***************************************************************************)
(* Pixel conversion and texture upload (src/src/argb1555.rs,               *)
(* src/src/indexed.rs).  A texel is a tuple: <<r, g, b, a>> in the RGBA8    *)
(* texture of the ARGB1555 surface, <<index>> in the R8 texture of the      *)
(* indexed surface, and Blank in a texture nothing was written to yet.     *)
(***************************************************************************)
Blank == << >>

argb1555_to_rgba8(pixel) ==
    LET a1 == (pixel \div 32768) % 2
        r5 == (pixel \div 1024) % 32
        g5 == (pixel \div 32) % 32
        b5 == pixel % 32
    IN  <<(r5 * 255 + 15) \div 31, (g5 * 255 + 15) \div 31, (b5 * 255 + 15) \div 31,
          IF a1 = 1 THEN 255 ELSE 0>>

\* what the texture holds for a pixel value of the CPU buffer
Texel(enc, pixel) == IF enc = "argb1555" THEN argb1555_to_rgba8(pixel) ELSE <<pixel>>

create_texture(w, h) == [width |-> w, height |-> h, data |-> [i \in 1..(w * h) |-> Blank]]

\* the staging buffer, reading the source rows with the region's width as stride
UploadBuffer_region_stride(enc, pix, width, height, region) ==
    IF region.x = 0 /\ region.y = 0 /\ region.width = width /\ region.height = height
    THEN [i \in 1..Len(pix) |-> Texel(enc, pix[i])]
    ELSE [k \in 1..(region.width * region.height) |->
            LET row == (k - 1) \div region.width
                col == (k - 1) % region.width
                src_start == (region.y + row) * region.width + region.x
            IN  Texel(enc, pix[src_start + col + 1])]

\* the staging buffer of one region: the whole pixel array in order when the
\* region is the full buffer, else the region's rows copied one by one
UploadBuffer(enc, pix, width, height, region) ==
    IF region.x = 0 /\ region.y = 0 /\ region.width = width /\ region.height = height
    THEN [i \in 1..Len(pix) |-> Texel(enc, pix[i])]
    ELSE [k \in 1..(region.width * region.height) |->
            LET row == (k - 1) \div region.width
                col == (k - 1) % region.width
                src_start == (region.y + row) * width + region.x
            IN  Texel(enc, pix[src_start + col + 1])]

\* queue.write_texture: rows of region.width texels written at the origin
write_texture(tex, region, buf) ==
    [tex EXCEPT !.data =
        [i \in 1..(tex.width * tex.height) |->
            LET x == (i - 1) % tex.width
                y == (i - 1) \div tex.width
            IN  IF /\ region.x <= x /\ x < region.x + region.width
                   /\ region.y <= y /\ y < region.y + region.height
                THEN buf[(y - region.y) * region.width + (x - region.x) + 1]
                ELSE tex.data[i]]]

\* the `for region in regions` loop of upload_dirty_regions
RECURSIVE UploadRegions(_, _, _, _, _, _)
UploadRegions(enc, tex, pix, width, height, regions) ==
    IF regions = << >> THEN tex
    ELSE UploadRegions(enc,
            write_texture(tex, Head(regions),
                          UploadBuffer(enc, pix, width, height, Head(regions))),
            pix, width, height, Tail(regions))

\* Vec::resize(new_len, 0): the first new_len elements stay, zeros are appended
VecResize(v, new_len) ==
    [i \in 1..new_len |-> IF i <= Len(v) THEN v[i] ELSE 0]

(***************************************************************************)
(* f32 arithmetic.  A float is <<m, e>> standing for m * 2^e, with m odd   *)
(* (or <<0, 0>>) and |m| < 2^24; every operation rounds its exact result   *)
(* to the nearest such value, ties to even, as IEEE 754 single precision   *)
(* does.  Infinities, NaN and subnormals do not arise for the sizes used.  *)
(* An operation binds its operands to their values before it computes      *)
(* with them (Strict1..Strict4), as a Rust expression evaluates its         *)
(* operands once.                                                          *)
(***************************************************************************)
Strict1(Op(_), a) == CHOOSE r \in {Op(x) : x \in {a}} : TRUE
Strict2(Op(_, _), a, b) == CHOOSE r \in {Op(x, y) : x \in {a}, y \in {b}} : TRUE
Strict3(Op(_, _, _), a, b, c) ==
    CHOOSE r \in {Op(x, y, z) : x \in {a}, y \in {b}, z \in {c}} : TRUE
Strict4(Op(_, _, _, _), a, b, c, d) ==
    CHOOSE r \in {Op(x, y, z, u) : x \in {a}, y \in {b}, z \in {c}, u \in {d}} : TRUE

Abs(n) == IF n < 0 THEN 0 - n ELSE n

Sgn(n) == IF n < 0 THEN 0 - 1 ELSE 1

\* the number of bits of v >= 0
BitLength(v) == CHOOSE k \in 0..30 : v < 2^k /\ (k = 0 \/ 2^(k - 1) <= v)

\* m * 2^e with the factors of two of m moved into the exponent
TrailingZeros(v) == CHOOSE k \in 0..30 : v % 2^k = 0 /\ v % 2^(k + 1) # 0
Shifted(v, e, k) == <<v \div 2^k, e + k>>
Norm(v, e) == IF v = 0 THEN <<0, 0>> ELSE Strict3(Shifted, v, e, TrailingZeros(v))
FNorm(m, e) == Strict2(Norm, m, e)

\* q, with remainder r of a division by 2 * half, rounded to nearest, ties
\* to even
Nearest(q, r, half) == IF r > half \/ (r = half /\ q % 2 = 1) THEN q + 1 ELSE q

\* the float nearest to sign * n * 2^e, for n >= 0: n keeps its leading 24
\* bits, rounded to nearest, ties to even
Dropped(sign, v, e, drop) ==
    Norm(sign * Nearest(v \div 2^drop, v % 2^drop, 2^(drop - 1)), e + drop)
Round(sign, v, e) ==
    IF v < 16777216 THEN Norm(sign * v, e)
    ELSE Strict4(Dropped, sign, v, e, BitLength(v) - 24)
FRound(sign, n, e) == Strict3(Round, sign, n, e)

\* u32 as f32
F32(n) == FRound(1, n, 0)

\* the exponent just above a's leading bit
TopOf(v) == v[2] + BitLength(Abs(v[1]))

\* v in units of 2^u; the bits that fall below the unit are kept as a sticky
\* lowest bit, which is all a rounding above it needs of them
Sticky(q) == IF q % 2 = 1 THEN q ELSE q + 1
Units(v, u) ==
    IF v[2] >= u THEN v[1] * 2^(v[2] - u)
    ELSE IF u - v[2] >= 25 THEN Sgn(v[1])
    ELSE Sgn(v[1]) * Sticky(Abs(v[1]) \div 2^(u - v[2]))

\* the sum, computed with four bits below the 24 of the larger operand
Sum(n, e) == Round(Sgn(n), Abs(n), e)
Aligned(x, y, e) == Strict2(Sum, Units(x, e) + Units(y, e), e)
Add(x, y) ==
    IF x[1] = 0 THEN y
    ELSE IF y[1] = 0 THEN x
    ELSE Strict3(Aligned, x, y, Max(TopOf(x), TopOf(y)) - 28)
FAdd(a, b) == Strict2(Add, a, b)

Sub(x, y) == Add(x, <<0 - y[1], y[2]>>)
FSub(a, b) == Strict2(Sub, a, b)

Less(x, y) == Sub(x, y)[1] < 0
FLess(a, b) == Strict2(Less, a, b)
MinOf(x, y) == IF Less(y, x) THEN y ELSE x
FMin(a, b) == Strict2(MinOf, a, b)
MaxOf(x, y) == IF Less(x, y) THEN y ELSE x
FMax(a, b) == Strict2(MaxOf, a, b)

\* the product of two significands, computed in halves of 12 bits as
\* <<hi, lo>> standing for hi * 2^24 + lo, then rounded to 24 bits
Halves(m) == <<m \div 4096, m % 4096>>
Joined(high, low) == <<high + low \div 16777216, low % 16777216>>
Parts(ha, hb, mid) ==
    Joined(ha[1] * hb[1] + mid \div 4096, (mid % 4096) * 4096 + ha[2] * hb[2])
Product(ha, hb) == Parts(ha, hb, ha[1] * hb[2] + ha[2] * hb[1])
WideRounded(sign, p, e, drop) ==
    Norm(sign * Nearest(p[1] * 2^(24 - drop) + p[2] \div 2^drop,
                        p[2] % 2^drop, 2^(drop - 1)),
         e + drop)
Wide(sign, p, e) ==
    IF p[1] = 0 THEN Norm(sign * p[2], e)
    ELSE Strict4(WideRounded, sign, p, e, BitLength(p[1]))
Mul(x, y) ==
    Strict3(Wide, Sgn(x[1]) * Sgn(y[1]),
            Product(Halves(Abs(x[1])), Halves(Abs(y[1]))), x[2] + y[2])
FMul(a, b) == Strict2(Mul, a, b)

\* one step of the long division n / d: <<q, r>> with r < d becomes the
\* quotient with k more bits and its remainder
Step(s, d, m) == <<s[1] * m + (s[2] * m) \div d, (s[2] * m) % d>>
DivStep(qr, d, k) == Strict3(Step, qr, d, 2^k)

\* the quotient of two significands: the numerator is scaled so that the
\* quotient starts with a 1 bit, 23 more bits follow, and the remainder
\* decides the rounding to nearest, ties to even
Quotient(sign, s, d, e) == Norm(sign * Nearest(s[1], 2 * s[2], d), e - 23)
Long(sign, n, d, e) ==
    Strict4(Quotient, sign,
            DivStep(DivStep(DivStep(DivStep(<<1, n - d>>, d, 6), d, 6), d, 6), d, 5),
            d, e)
Leading(sign, n1, d, e) ==
    IF n1 < d THEN Long(sign, 2 * n1, d, e - 1) ELSE Long(sign, n1, d, e)
Normalized(sign, nd, e, k) ==
    Leading(sign,
            IF k > 0 THEN nd[1] * 2^k ELSE nd[1],
            IF k < 0 THEN nd[2] * 2^(0 - k) ELSE nd[2],
            e - k)
Div(x, y) ==
    IF x[1] = 0 THEN <<0, 0>>
    ELSE Strict4(Normalized, Sgn(x[1]) * Sgn(y[1]), <<Abs(x[1]), Abs(y[1])>>,
                 x[2] - y[2], BitLength(Abs(y[1])) - BitLength(Abs(x[1])))
FDiv(a, b) == Strict2(Div, a, b)

Floor(v) == IF v[2] >= 0 THEN v ELSE Norm(v[1] \div 2^(0 - v[2]), 0)
FFloor(a) == Strict1(Floor, a)

\* `as u32`: truncation toward zero, negative values giving 0 (the sizes of
\* the model stay far below u32::MAX, where the cast saturates too)
TruncatedU32(v) ==
    IF v[1] <= 0 THEN 0
    ELSE IF v[2] >= 0 THEN v[1] * 2^v[2]
    ELSE v[1] \div 2^(0 - v[2])
FToU32(a) == Strict1(TruncatedU32, a)

\* `as i32` and `as isize`: truncation toward zero
Truncated(v) ==
    IF v[2] >= 0 THEN v[1] * 2^v[2]
    ELSE Sgn(v[1]) * (Abs(v[1]) \div 2^(0 - v[2]))
FToInt(a) == Strict1(Truncated, a)

\* f32::MIN_POSITIVE, the smallest positive normal value
MIN_POSITIVE == <<1, 0 - 126>>

\* scale.max(f32::MIN_POSITIVE)
AtLeastMinPositive(v) ==
    IF v[1] > 0 /\ (v[2] >= MIN_POSITIVE[2]
                     \/ (v[2] >= MIN_POSITIVE[2] - 24
                         /\ v[1] >= 2^(MIN_POSITIVE[2] - v[2])))
    THEN v
    ELSE MIN_POSITIVE
MaxMinPositive(a) == Strict1(AtLeastMinPositive, a)

(***************************************************************************)
(* compute_scaling (src/src/scaling.rs).  f holds the four sizes as f32,   *)
(* scaled the scaled buffer extent and the scale, clip the clip extent     *)
(* before its truncation to u32.                                           *)
(***************************************************************************)
\* PixelPerfect with the ratio left unfloored
pixel_perfect_scale_unfloored(f) ==
    FMax(FMin(FMax(FDiv(f.surface_width_f, f.buffer_width_f), F32(1)),
              FMax(FDiv(f.surface_height_f, f.buffer_height_f), F32(1))),
         F32(1))

\* ScalingMode::PixelPerfect: width_ratio.min(height_ratio).floor().max(1.0)
pixel_perfect_scale(f) ==
    FMax(FFloor(FMin(FMax(FDiv(f.surface_width_f, f.buffer_width_f), F32(1)),
                     FMax(FDiv(f.surface_height_f, f.buffer_height_f), F32(1)))),
         F32(1))

\* ScalingMode::Fill: width_ratio.min(height_ratio)
fill_scale(f) ==
    FMin(FDiv(f.surface_width_f, f.buffer_width_f),
         FDiv(f.surface_height_f, f.buffer_height_f))

\* clip_width, clip_height
clip_extent(scaled, surface_f) == FMax(FMin(scaled, surface_f), F32(1))
\* clip_x, clip_y
clip_origin(surface_f, clip) ==
    FToU32(FMax(FDiv(FSub(surface_f, clip), F32(2)), F32(0)))

\* the ScalingState with ndc_scale taken from the clip extent
ScalingState_ndc_from_clip(f, scaled, clip) ==
    [ndc_scale |-> <<FDiv(clip.width, FMax(f.surface_width_f, F32(1))),
                     FDiv(clip.height, FMax(f.surface_height_f, F32(1)))>>,
     clip_rect |-> Rect(clip_origin(f.surface_width_f, clip.width),
                        clip_origin(f.surface_height_f, clip.height),
                        FToU32(clip.width), FToU32(clip.height)),
     buffer_to_surface_scale |-> scaled.scale]

\* the ScalingState returned
ScalingState(f, scaled, clip) ==
    [ndc_scale |-> <<FDiv(scaled.width, FMax(f.surface_width_f, F32(1))),
                     FDiv(scaled.height, FMax(f.surface_height_f, F32(1)))>>,
     clip_rect |-> Rect(clip_origin(f.surface_width_f, clip.width),
                        clip_origin(f.surface_height_f, clip.height),
                        FToU32(clip.width), FToU32(clip.height)),
     buffer_to_surface_scale |-> scaled.scale]

Clipped(f, scaled) ==
    Strict3(ScalingState, f, scaled,
            [width |-> clip_extent(scaled.width, f.surface_width_f),
             height |-> clip_extent(scaled.height, f.surface_height_f)])

ScaledBy(f, scale) ==
    Strict2(Clipped, f,
            [width |-> FMul(f.buffer_width_f, scale),
             height |-> FMul(f.buffer_height_f, scale),
             scale |-> scale])

Sized(f, mode) ==
    Strict2(ScaledBy, f,
            IF mode = "PixelPerfect" THEN pixel_perfect_scale(f) ELSE fill_scale(f))

compute_scaling(buffer_size, surface_size, mode) ==
    Strict2(Sized,
            [buffer_width_f |-> F32(buffer_size[1]),
             buffer_height_f |-> F32(buffer_size[2]),
             surface_width_f |-> F32(surface_size[1]),
             surface_height_f |-> F32(surface_size[2])],
            mode)

Ok(v) == [tag |-> "Ok", value |-> v]
Err(v) == [tag |-> "Err", value |-> v]

(***************************************************************************)
(* window_pos_to_pixel (src/src/argb1555.rs, src/src/indexed.rs): st is    *)
(* the stored ScalingState, w and h the buffer size, pos the physical      *)
(* position, a pair of floats; p is its floor <<x, y>>, size is <<w, h>>.  *)
(***************************************************************************)
\* the second test: the computed pixel against the buffer
in_buffer(size, pixel) ==
    IF \/ pixel[1] < 0
       \/ pixel[2] < 0
       \/ pixel[1] >= size[1]
       \/ pixel[2] >= size[2]
    THEN Err(pixel)
    ELSE Ok(pixel)

\* crop_x, crop_y
crop(buffer_dim, clip_dim, scale) ==
    FDiv(FSub(F32(buffer_dim), FDiv(F32(clip_dim), scale)), F32(2))

\* the local position taken for the buffer position, without the division
local_to_buffer_unscaled(local, scale) == F32(local)

\* local_x / scale, local_y / scale
local_to_buffer(local, scale) == FDiv(F32(local), scale)

\* pixel_x, pixel_y
pixel_of(size, clip, p, scale) ==
    Strict2(in_buffer, size,
            <<FToInt(FFloor(FAdd(crop(size[1], clip.width, scale),
                                 local_to_buffer(p[1] - clip.x, scale)))),
              FToInt(FFloor(FAdd(crop(size[2], clip.height, scale),
                                 local_to_buffer(p[2] - clip.y, scale))))>>)

\* the first test, taking the first column and row past the clip as inside
in_clip_inclusive_edge(st, size, p) ==
    IF \/ p[1] < st.clip_rect.x
       \/ p[2] < st.clip_rect.y
       \/ p[1] > st.clip_rect.x + st.clip_rect.width
       \/ p[2] > st.clip_rect.y + st.clip_rect.height
    THEN Err(p)
    ELSE Strict4(pixel_of, size, st.clip_rect, p,
                 MaxMinPositive(st.buffer_to_surface_scale))

\* the first test: the position against the clip rectangle
in_clip(st, size, p) ==
    IF \/ p[1] < st.clip_rect.x
       \/ p[2] < st.clip_rect.y
       \/ p[1] >= st.clip_rect.x + st.clip_rect.width
       \/ p[2] >= st.clip_rect.y + st.clip_rect.height
    THEN Err(p)
    ELSE Strict4(pixel_of, size, st.clip_rect, p,
                 MaxMinPositive(st.buffer_to_surface_scale))

window_pos_to_pixel(st, w, h, pos) ==
    Strict3(in_clip, st, <<w, h>>, <<FToInt(FFloor(pos[1])), FToInt(FFloor(pos[2]))>>)

(***************************************************************************)
(* State.  dirty is the DirtyTiles value (of the tracker under test in     *)
(* Spec, of the surface in SpecSurface).  op, result, ret, cap, frags,     *)
(* hist and consumed record the last operation and what a drain consumed.  *)
(***************************************************************************)
VARIABLES
    dirty,      \* DirtyTiles
    encoding,   \* "argb1555" or "indexed": which surface type this is
    width,      \* buffer width of the surface
    height,     \* buffer height of the surface
    pixels,     \* the CPU pixel buffer (pixels / indices), row-major
    texture,    \* the GPU texture the buffer is uploaded to
    surface_config,  \* <<width, height>> of the configured window surface
    scaling_mode,    \* "PixelPerfect" or "Fill"
    scaling_state,   \* the stored ScalingState
    palette,         \* the CPU palette of an indexed surface
    gpu_palette,     \* the palette texture
    palette_dirty,   \* the palette_dirty flag
    op,         \* name of the last operation
    arg,        \* class of its arguments: "zero" / "nonzero" size,
                \* "in_range" / "out_of_range" position, or "none"
                \* (under SpecMark, the point or rectangle of a mark)
    result,     \* "ok" or "err": how the last operation returned ("again"
                \* under SpecMark, when it repeated the mark before it)
    ret,        \* list returned by the last operation's take_regions
    cap,        \* max_regions of the last operation's take_regions
    frags,      \* rectangles of that take_regions before the cap
    hist,       \* what happened since the last drain
    consumed,   \* hist as the last operation's drain found it
    gpu         \* what the last operation asked of the window surface and
                \* the GPU: frame acquisitions, surface configurations,
                \* uploads, texture writes of pixel data, draws and presents

pvars == <<palette, gpu_palette, palette_dirty>>
svars == <<encoding, width, height, pixels, texture,
           surface_config, scaling_mode, scaling_state, pvars>>
vars == <<dirty, encoding, width, height, pixels, texture,
          surface_config, scaling_mode, scaling_state,
          palette, gpu_palette, palette_dirty,
          op, arg, result, ret, cap, frags, hist, consumed, gpu>>

\* hist: marked  = in-bounds pixels marked since a drain left the tracker clean
\*       full    = mark_full was called since the last drain
\*       resized = the tracker was resized since the last drain
\*       framed  = frame_mut or clear was called since the last drain
NoHist == [marked |-> {}, full |-> FALSE, resized |-> FALSE, framed |-> FALSE]

\* consumed: hist before the drain, and whether the operation before it was a
\* drain
\* too, returning prev rectangles (after_drain, prev)
NotADrain == [marked |-> {}, full |-> FALSE, resized |-> FALSE, framed |-> FALSE,
              drained |-> FALSE, after_drain |-> FALSE, prev |-> 0]
Drained(h, after) ==
    [marked |-> h.marked, full |-> h.full, resized |-> h.resized, framed |-> h.framed,
     drained |-> TRUE, after_drain |-> after, prev |-> Len(ret)]

\* no call to the window surface or the GPU queue
NoCalls ==
    [acquires |-> 0, configures |-> 0, palettes |-> 0, uploads |-> 0,
     writes |-> 0, draws |-> 0, presents |-> 0]

\* ret, cap, frags, consumed and gpu describe the last operation when it
\* drained the tracker or rendered; any other operation resets them
NoDrain ==
    /\ ret' = << >> /\ cap' = 0 /\ frags' = << >> /\ consumed' = NotADrain
    /\ gpu' = NoCalls

\* the pixels of rect r that lie inside a w x h buffer
PixelsOf(r, w, h) ==
    {p \in (0..(w - 1)) \X (0..(h - 1)) :
        /\ r.x <= p[1] /\ p[1] - r.x < r.width
        /\ r.y <= p[2] /\ p[2] - r.y < r.height}

\* hist after a mark of rect r: the marked pixels are recorded for the runs of
\* marks that start from a clean tracker (no mark_full or resize since the drain)
Marked(r) ==
    IF hist.full \/ hist.resized THEN hist
    ELSE [hist EXCEPT !.marked = @ \cup PixelsOf(r, dirty.width, dirty.height)]

\* arguments of mark_point and mark_rect: the coordinates inside the buffer,
\* the first one outside and the largest u32; extents 0, 1, 2 and the largest
XArgs == (0..dirty.width) \cup {U32_MAX}
YArgs == (0..dirty.height) \cup {U32_MAX}
Extents == {0, 1, 2, U32_MAX}

(***************************************************************************)
(* Spec: the tracker alone.  No surface exists.                            *)
(***************************************************************************)
Dims == 0..MaxArea
TileArgs == 0..MaxTile

\* the palette of a surface that has none
NoPalette == << >>

NoSurface ==
    /\ encoding = "none"
    /\ width = 0
    /\ height = 0
    /\ pixels = << >>
    /\ texture = create_texture(0, 0)
    /\ surface_config = <<0, 0>>
    /\ scaling_mode = "none"
    /\ scaling_state = None
    /\ palette = NoPalette
    /\ gpu_palette = NoPalette
    /\ palette_dirty = FALSE

TrackerOf(sizes, tiles) ==
    /\ \E s \in sizes, t \in tiles : dirty = DirtyNew(s[1], s[2], t)
    /\ op = "new"
    /\ arg = "none"
    /\ result = "ok"
    /\ ret = << >>
    /\ cap = 0
    /\ frags = << >>
    /\ hist = NoHist
    /\ consumed = NotADrain
    /\ gpu = NoCalls
    /\ NoSurface

TrackerInit == TrackerOf({s \in Dims \X Dims : s[1] * s[2] <= MaxArea}, TileArgs)

MarkPointAt(x, y) ==
    /\ dirty' = mark_point(dirty, x, y)
    /\ hist' = Marked(from_point(x, y))
    /\ op' = "mark_point"
    /\ NoDrain
    /\ UNCHANGED <<arg, result, svars>>

MarkPoint == \E x \in XArgs, y \in YArgs : MarkPointAt(x, y)

MarkRectOf(r) ==
    /\ dirty' = mark_rect(dirty, r)
    /\ hist' = Marked(r)
    /\ op' = "mark_rect"
    /\ NoDrain
    /\ UNCHANGED <<arg, result, svars>>

MarkRect ==
    \E x \in XArgs, y \in YArgs, w \in Extents, h \in Extents :
        MarkRectOf(Rect(x, y, w, h))

MarkFull ==
    /\ dirty' = mark_full(dirty)
    /\ hist' = [hist EXCEPT !.full = TRUE]
    /\ op' = "mark_full"
    /\ NoDrain
    /\ UNCHANGED <<arg, result, svars>>

ResizeTo(w, h) ==
    /\ dirty' = DirtyResize(dirty, w, h)
    /\ hist' = [hist EXCEPT !.marked = {}, !.resized = TRUE]
    /\ op' = "resize"
    /\ NoDrain
    /\ UNCHANGED <<arg, result, svars>>

Resize == \E w \in Dims, h \in Dims : w * h <= MaxArea /\ ResizeTo(w, h)

TakeRegions ==
    \E m \in 0..MaxRegions :
        LET t == take_regions(dirty, m)
        IN  /\ dirty' = t.d
            /\ ret' = t.out
            /\ frags' = t.frags
            /\ cap' = m
            /\ op' = "take_regions"
            /\ consumed' = Drained(hist, op = "take_regions")
            /\ hist' = NoHist
            /\ UNCHANGED <<result, gpu, svars>>

TrackerNext ==
    \/ MarkPoint
    \/ MarkRect
    \/ MarkFull
    \/ Resize
    \/ TakeRegions /\ UNCHANGED arg

Spec == TrackerInit /\ [][TrackerNext]_vars

\* the same tracker with the argument of every mark kept in arg, so that a
\* mark can be compared with the mark before it; the coordinates are the
\* first two and the largest u32, the extents 0, 1 and the largest u32
Coords == {0, 1, U32_MAX}
Sizes == {0, 1, U32_MAX}

MarkPointArg ==
    \E x \in Coords, y \in Coords :
        /\ dirty' = mark_point(dirty, x, y)
        /\ op' = "mark_point"
        /\ arg' = <<x, y>>
        /\ result' = IF op = "mark_point" /\ arg = <<x, y>> THEN "again" ELSE "ok"
        /\ NoDrain
        /\ UNCHANGED <<hist, svars>>

MarkRectArg ==
    \E x \in Coords, y \in Coords, w \in Sizes, h \in Sizes :
        /\ dirty' = mark_rect(dirty, Rect(x, y, w, h))
        /\ op' = "mark_rect"
        /\ arg' = Rect(x, y, w, h)
        /\ result' = IF op = "mark_rect" /\ arg = Rect(x, y, w, h) THEN "again" ELSE "ok"
        /\ NoDrain
        /\ UNCHANGED <<hist, svars>>

MarkNext ==
    \/ MarkPointArg
    \/ MarkRectArg
    \/ MarkFull
    \/ TakeRegions /\ arg' = "none"

SpecMark == TrackerInit /\ [][MarkNext]_vars

(***************************************************************************)
(* SpecTiles: DirtyTiles::new called with any u32 width, a height at       *)
(* either end of the range and a tile size of at least 1.                  *)
(***************************************************************************)
EdgeDims == {0, 1, U32_MAX - 1, U32_MAX}
TileSizes == (1..MaxTile) \cup {U32_MAX}

\* `width + tile_size - 1` in u32: a build with overflow checks panics at the
\* addition when the sum passes u32::MAX, a build without them wraps
AddOverflows(w, h, tile_size) ==
    w + tile_size > U32_MAX \/ h + tile_size > U32_MAX

\* before the call: arg holds <<width, height, tile_size>>
TilesInit ==
    /\ arg \in U32 \X EdgeDims \X TileSizes
    /\ dirty = None
    /\ op = "call"
    /\ result = "ok"
    /\ ret = << >>
    /\ cap = 0
    /\ frags = << >>
    /\ hist = NoHist
    /\ consumed = NotADrain
    /\ gpu = NoCalls
    /\ NoSurface

\* DirtyTiles::new in a build without overflow checks
NewWrapping ==
    /\ op = "call"
    /\ dirty' = DirtyNew(arg[1], arg[2], arg[3])
    /\ op' = "new"
    /\ result' = "ok"
    /\ UNCHANGED <<arg, ret, cap, frags, hist, consumed, gpu, svars>>

\* DirtyTiles::new in a build with overflow checks
NewChecked ==
    /\ op = "call"
    /\ IF AddOverflows(arg[1], arg[2], Max(arg[3], 1))
       THEN /\ result' = "panic"
            /\ UNCHANGED dirty
       ELSE /\ result' = "ok"
            /\ dirty' = DirtyNew(arg[1], arg[2], arg[3])
    /\ op' = "new"
    /\ UNCHANGED <<arg, ret, cap, frags, hist, consumed, gpu, svars>>

TilesNext == NewWrapping \/ NewChecked

SpecTiles == TilesInit /\ [][TilesNext]_vars

\* C12: for every u32 width and height and every tile size of at least 1,
\* DirtyTiles::new returns a grid with tiles_x * tile_size >= width,
\* tiles_y * tile_size >= height, tiles_x >= 1 and tiles_y >= 1.
C12_TileCoverage ==
    op = "new"
    => /\ result = "ok"
       /\ dirty.tiles_x * dirty.tile_size >= arg[1]
       /\ dirty.tiles_y * dirty.tile_size >= arg[2]
       /\ dirty.tiles_x >= 1
       /\ dirty.tiles_y >= 1

(***************************************************************************)
(* Properties of the tracker, checked under Spec.                          *)
(***************************************************************************)
\* the in-bounds pixels of the tile pixel p lies in
TileOf(p) ==
    {q \in (0..(dirty.width - 1)) \X (0..(dirty.height - 1)) :
        /\ q[1] \div dirty.tile_size = p[1] \div dirty.tile_size
        /\ q[2] \div dirty.tile_size = p[2] \div dirty.tile_size}

\* pixel q lies in rectangle r
Covers(r, q) ==
    /\ r.x <= q[1] /\ q[1] < r.x + r.width
    /\ r.y <= q[2] /\ q[2] < r.y + r.height

\* C1: a drain that follows only mark_point / mark_rect calls on a clean
\* tracker of at least 1 x 1 returns rectangles that cover, for every marked
\* in-bounds pixel, the whole tile of that pixel clipped to the buffer, and
\* every returned rectangle ends inside the buffer.
C1_DrainExhaustive ==
    (/\ op = "take_regions"
     /\ ~consumed.full /\ ~consumed.resized
     /\ dirty.width >= 1 /\ dirty.height >= 1)
    => /\ \A p \in consumed.marked : \A q \in TileOf(p) :
            \E i \in 1..Len(ret) : Covers(ret[i], q)
       /\ \A i \in 1..Len(ret) :
            /\ ret[i].x + ret[i].width <= dirty.width
            /\ ret[i].y + ret[i].height <= dirty.height

\* two marks in tiles of 2 pixels, drained as two rectangles of which one is
\* clipped at the buffer edge
C1_Witness ==
    /\ op = "take_regions"
    /\ ~consumed.full /\ ~consumed.resized
    /\ dirty.tile_size = 2
    /\ Cardinality(consumed.marked) >= 2
    /\ Len(ret) = 2
    /\ \E i \in 1..Len(ret) : ret[i].width < dirty.tile_size

\* C3: take_regions leaves every tile bit clear, the counter at 0 and the
\* full flag false, and a take_regions that directly follows a take_regions
\* returns the empty list.
C3_DrainResets ==
    op = "take_regions"
    => /\ dirty.bits = {}
       /\ dirty.dirty_tiles = 0
       /\ ~dirty.full
       /\ (consumed.after_drain => ret = << >>)

\* a drain that returned rectangles, directly followed by a second drain
C3_Witness ==
    /\ op = "take_regions"
    /\ consumed.after_drain
    /\ consumed.prev > 0
    /\ ret = << >>

\* C4: on a tracker of at least 1 x 1, the drain that follows a mark_full
\* returns the one rectangle (0, 0, w, h), whatever was marked before or
\* after the mark_full and whatever max_regions is.
C4_FullShortCircuit ==
    (/\ op = "take_regions"
     /\ consumed.full
     /\ dirty.width >= 1 /\ dirty.height >= 1)
    => ret = <<Rect(0, 0, dirty.width, dirty.height)>>

\* tiles marked, then mark_full, then a drain with max_regions = 0
C4_Witness ==
    /\ op = "take_regions"
    /\ consumed.full /\ ~consumed.resized
    /\ consumed.marked # {}
    /\ cap = 0
    /\ dirty.width >= 2
    /\ ret = <<Rect(0, 0, dirty.width, dirty.height)>>

\* the smallest rectangle containing every rectangle of the list s
BoundingBox(s) ==
    LET x0 == CHOOSE v \in {s[i].x : i \in 1..Len(s)} :
                  \A i \in 1..Len(s) : v <= s[i].x
        y0 == CHOOSE v \in {s[i].y : i \in 1..Len(s)} :
                  \A i \in 1..Len(s) : v <= s[i].y
        x1 == CHOOSE v \in {s[i].x + s[i].width : i \in 1..Len(s)} :
                  \A i \in 1..Len(s) : s[i].x + s[i].width <= v
        y1 == CHOOSE v \in {s[i].y + s[i].height : i \in 1..Len(s)} :
                  \A i \in 1..Len(s) : s[i].y + s[i].height <= v
    IN  Rect(x0, y0, x1 - x0, y1 - y0)

\* C5: when the sweep of take_regions(max_regions) leaves more than
\* max_regions rectangles, the call returns one rectangle, the bounding box
\* of all of them: it contains each of them and ends inside the buffer.
C5_CapCollapses ==
    (op = "take_regions" /\ Len(frags) > cap)
    => /\ Len(ret) = 1
       /\ ret[1] = BoundingBox(frags)
       /\ \A i \in 1..Len(frags) :
            /\ ret[1].x <= frags[i].x
            /\ ret[1].y <= frags[i].y
            /\ frags[i].x + frags[i].width <= ret[1].x + ret[1].width
            /\ frags[i].y + frags[i].height <= ret[1].y + ret[1].height
       /\ ret[1].x + ret[1].width <= dirty.width
       /\ ret[1].y + ret[1].height <= dirty.height

\* three fragments against a cap of 2, collapsed into a rectangle that is
\* none of them
C5_Witness ==
    /\ op = "take_regions"
    /\ cap = 2
    /\ Len(frags) >= 3
    /\ Len(ret) = 1
    /\ \A i \in 1..Len(frags) : frags[i] # ret[1]

\* the pixels of the buffer that the rectangles of the list s cover
CoveredBy(s) ==
    UNION {PixelsOf(s[i], dirty.width, dirty.height) : i \in 1..Len(s)}

\* the pixels of the tiles that hold a marked pixel
MarkedTiles(marked) == UNION {TileOf(p) : p \in marked}

\* rectangles r and q have a tile row in common
ShareRow(r, q) == r.y < q.y + q.height /\ q.y < r.y + r.height

\* C25: a drain that follows only mark_point / mark_rect calls on a clean
\* tracker returns, when the sweep's rectangles do not exceed the cap, these
\* rectangles; they lie inside the buffer, are pairwise disjoint, and cover
\* exactly the tiles (clipped to the buffer) that hold an in-bounds marked
\* pixel; two of them that share a tile row have at least one tile between
\* them.
C25_NoDoubleUpload ==
    (/\ op = "take_regions"
     /\ ~consumed.full /\ ~consumed.resized)
    => /\ Len(frags) <= cap => ret = frags
       /\ \A i \in 1..Len(frags) :
            /\ frags[i].width >= 1 /\ frags[i].height >= 1
            /\ frags[i].x + frags[i].width <= dirty.width
            /\ frags[i].y + frags[i].height <= dirty.height
       /\ \A i, j \in 1..Len(frags) :
            i < j => PixelsOf(frags[i], dirty.width, dirty.height)
                       \cap PixelsOf(frags[j], dirty.width, dirty.height) = {}
       /\ CoveredBy(frags) = MarkedTiles(consumed.marked)
       /\ \A i, j \in 1..Len(frags) :
            (i # j /\ ShareRow(frags[i], frags[j]) /\ frags[i].x <= frags[j].x)
                => frags[i].x + frags[i].width + dirty.tile_size <= frags[j].x

\* a drain that returned two rectangles of one tile row, the tile between
\* them left out
C25_Witness ==
    /\ op = "take_regions"
    /\ ~consumed.full /\ ~consumed.resized
    /\ Len(ret) = 2 /\ ret = frags
    /\ ShareRow(ret[1], ret[2])
    /\ CoveredBy(ret) # (0..(dirty.width - 1)) \X (0..(dirty.height - 1))

\* the tiles (column, row) that hold a pixel of the set marked
DirtyTilesOf(marked) ==
    {<<p[1] \div dirty.tile_size, p[2] \div dirty.tile_size>> : p \in marked}

\* the tile columns c0..c1 of the tile rows r0..r1, clipped to the buffer
BlockRect(c0, c1, r0, r1) ==
    clamp_to(Rect(c0 * dirty.tile_size, r0 * dirty.tile_size,
                  (c1 - c0 + 1) * dirty.tile_size, (r1 - r0 + 1) * dirty.tile_size),
             dirty.width, dirty.height)

\* C27: a drain that follows only mark_point / mark_rect calls on a clean
\* tracker and finds the dirty tiles to be the solid block of tile columns
\* c0..c1 and tile rows r0..r1 returns exactly one rectangle, the block
\* clipped to the buffer; and no two rectangles of a sweep have the same x
\* and the same width with the bottom edge of one on the top edge of the
\* other.
C27_VerticalMerging ==
    (/\ op = "take_regions"
     /\ ~consumed.full /\ ~consumed.resized)
    => /\ \A c0, c1 \in 0..(dirty.tiles_x - 1), r0, r1 \in 0..(dirty.tiles_y - 1) :
            (/\ c0 <= c1 /\ r0 <= r1
             /\ DirtyTilesOf(consumed.marked) = (c0..c1) \X (r0..r1))
                => /\ frags = <<BlockRect(c0, c1, r0, r1)>>
                   /\ ret = frags
       /\ \A i, j \in 1..Len(frags) :
            ~(/\ frags[i].x = frags[j].x
              /\ frags[i].width = frags[j].width
              /\ frags[i].y + frags[i].height = frags[j].y)

\* a drain of a block of two tile rows or more that does not span the
\* buffer, returned as one rectangle
C27_Witness ==
    /\ op = "take_regions"
    /\ ~consumed.full /\ ~consumed.resized
    /\ Len(ret) = 1 /\ ret = frags
    /\ ret[1].height > dirty.tile_size
    /\ ret[1] # Rect(0, 0, dirty.width, dirty.height)
    /\ \E c0, c1 \in 0..(dirty.tiles_x - 1), r0, r1 \in 0..(dirty.tiles_y - 1) :
          DirtyTilesOf(consumed.marked) = (c0..c1) \X (r0..r1)

\* C28 as stated: a drain never returns more than max_regions rectangles,
\* for every max_regions and every tracker state.  A drain of a dirty tracker
\* with max_regions = 0 returns one rectangle.
C28_AtMostCap == op = "take_regions" => Len(ret) <= cap

\* C28: a drain never returns more than max(max_regions, 1) rectangles, for
\* every max_regions and every tracker state (clean, partially dirty, fully
\* dirty), so a drain with max_regions >= 1 returns at most max_regions.
C28_AtMostCapOrOne ==
    op = "take_regions"
        => /\ Len(ret) <= Max(cap, 1)
           /\ cap >= 1 => Len(ret) <= cap

\* a drain of a partially dirty tracker whose sweep found more rectangles
\* than max_regions >= 1 allows
C28_Witness ==
    /\ op = "take_regions"
    /\ ~consumed.full /\ ~consumed.resized
    /\ cap >= 1
    /\ Len(frags) > cap
    /\ Len(ret) = 1

\* tracker d after mark_point at the first pixel of every tile of the set
\* tiles, taken in row-major order from tile index k upwards
RECURSIVE MarkTilesUp(_, _, _)
MarkTilesUp(d, tiles, k) ==
    IF k >= d.tiles_x * d.tiles_y THEN d
    ELSE MarkTilesUp(IF <<k % d.tiles_x, k \div d.tiles_x>> \in tiles
                     THEN mark_point(d, (k % d.tiles_x) * d.tile_size,
                                        (k \div d.tiles_x) * d.tile_size)
                     ELSE d,
                     tiles, k + 1)

\* the same marks in the opposite order, from tile index k downwards
RECURSIVE MarkTilesDown(_, _, _)
MarkTilesDown(d, tiles, k) ==
    IF k < 0 THEN d
    ELSE MarkTilesDown(IF <<k % d.tiles_x, k \div d.tiles_x>> \in tiles
                       THEN mark_point(d, (k % d.tiles_x) * d.tile_size,
                                          (k \div d.tiles_x) * d.tile_size)
                       ELSE d,
                       tiles, k - 1)

\* C34: a drain that follows any sequence of mark_point / mark_rect calls on
\* a clean tracker returns the list that the same max_regions returns on an
\* equal clean tracker after one mark_point per dirtied tile, in row-major
\* order or in the opposite order: the list depends on the set of dirty
\* tiles alone.
C34_DrainDependsOnTiles ==
    (/\ op = "take_regions"
     /\ ~consumed.full /\ ~consumed.resized)
    => LET fresh == DirtyNew(dirty.width, dirty.height, dirty.tile_size)
           tiles == DirtyTilesOf(consumed.marked)
       IN  /\ ret = take_regions(MarkTilesUp(fresh, tiles, 0), cap).out
           /\ ret = take_regions(
                        MarkTilesDown(fresh, tiles, fresh.tiles_x * fresh.tiles_y - 1),
                        cap).out

\* a drain of two rectangles after marks of more pixels than tiles
C34_Witness ==
    /\ op = "take_regions"
    /\ ~consumed.full /\ ~consumed.resized
    /\ Len(ret) = 2
    /\ Cardinality(consumed.marked) > Cardinality(DirtyTilesOf(consumed.marked))

\* the tile row of the bottom edge of rectangle r
BottomRow(r) == (r.y + r.height - 1) \div dirty.tile_size

\* C35: a drain of a tracker that is not fully dirty returns the rectangles
\* of the sweep as they are when they do
\* not exceed the cap, and the sweep lists them by non-decreasing bottom
\* tile row, those ending at the same tile row by strictly increasing x (the
\* rectangles that reach the last row come last, left to right).
C35_OutputOrder ==
    (/\ op = "take_regions"
     /\ ~consumed.full /\ ~consumed.resized)
        => /\ Len(frags) <= cap => ret = frags
           /\ \A i, j \in 1..Len(frags) :
                i < j => /\ BottomRow(frags[i]) <= BottomRow(frags[j])
                         /\ BottomRow(frags[i]) = BottomRow(frags[j])
                               => frags[i].x < frags[j].x

\* a drain returning a rectangle before one that starts in the same row,
\* lies to its left and ends lower
C35_Witness ==
    /\ op = "take_regions"
    /\ Len(ret) = 2 /\ ret = frags
    /\ ret[1].y = ret[2].y
    /\ ret[1].x > ret[2].x
    /\ BottomRow(ret[1]) < BottomRow(ret[2])

\* C36: a tracker whose buffer has a zero width or height (0x0 included)
\* never has a tile bit set, whatever is marked, and its drain returns the
\* empty list and leaves it clean in every state, the full flag set by
\* mark_full or resize included.
C36_ZeroBufferDrain ==
    (dirty.width = 0 \/ dirty.height = 0)
        => /\ dirty.bits = {}
           /\ dirty.dirty_tiles = 0
           /\ op = "take_regions" => ret = << >> /\ ~dirty.full

\* the drain of a 0x0 tracker after a mark_full
C36_Witness ==
    /\ op = "take_regions"
    /\ dirty.width = 0 /\ dirty.height = 0
    /\ consumed.full
    /\ ret = << >>
    /\ ~dirty.full

\* C11: a mark_point or mark_rect that repeats the call before it leaves the
\* tile bits and the dirty-tile counter as they were, and every mark raises
\* the counter by the number of tile bits it turns from 0 to 1.
C11_IdempotentMarking ==
    /\ [][(op' \in {"mark_point", "mark_rect"} /\ op' = op /\ arg' = arg)
            => /\ dirty'.bits = dirty.bits
               /\ dirty'.dirty_tiles = dirty.dirty_tiles]_vars
    /\ [][op' \in {"mark_point", "mark_rect"}
            => /\ dirty.bits \subseteq dirty'.bits
               /\ dirty'.dirty_tiles - dirty.dirty_tiles
                    = Cardinality(dirty'.bits \ dirty.bits)]_vars

\* a mark_rect of several tiles, repeated on a tracker that is not fully dirty
C11_Witness ==
    /\ op = "mark_rect" /\ result = "again"
    /\ ~dirty.full
    /\ dirty.dirty_tiles >= 2
    /\ dirty.dirty_tiles < dirty.tiles_x * dirty.tiles_y

\* C26: while the full flag is set, mark_point and mark_rect leave the tile
\* bits, the dirty-tile counter and the full flag as they are; mark_full in
\* any state sets the full flag and leaves the tile bits and the counter as
\* they are.
C26_MarkWhileFullNoOp ==
    /\ [][(op' \in {"mark_point", "mark_rect"} /\ dirty.full)
            => /\ dirty'.bits = dirty.bits
               /\ dirty'.dirty_tiles = dirty.dirty_tiles
               /\ dirty'.full]_vars
    /\ [][op' = "mark_full"
            => /\ dirty'.full
               /\ dirty'.bits = dirty.bits
               /\ dirty'.dirty_tiles = dirty.dirty_tiles]_vars

\* a mark_rect of pixels of the buffer on a fully dirty tracker whose tiles
\* were not all marked before
C26_Witness ==
    /\ op = "mark_rect"
    /\ dirty.full
    /\ dirty.dirty_tiles < dirty.tiles_x * dirty.tiles_y
    /\ clamp_to(arg, dirty.width, dirty.height) # None
    /\ \E tx \in 0..(dirty.tiles_x - 1), ty \in 0..(dirty.tiles_y - 1) :
          /\ ~is_tile_set(dirty, tx, ty)
          /\ tx * dirty.tile_size = arg.x
          /\ ty * dirty.tile_size = arg.y

(***************************************************************************)
(* SpecGrid: a tracker of one-pixel tiles whose grid has as many tiles as  *)
(* a u32 has values (2^29 x 8 tiles for 32 bits), and the same             *)
(* tracker one tile row shorter.  tile_index = ty * tiles_x + tx stays     *)
(* below 2^WordBits on these grids.  Marks are whole tile rows and single  *)
(* points.                                                                 *)
(***************************************************************************)
GridW == 2^(WordBits - 3)
GridH == (U32_MAX + 1) \div GridW
GridSizes == {<<GridW, GridH>>, <<GridW, GridH - 1>>}

GridInit == TrackerOf(GridSizes, {1})

MarkGridPoint ==
    \E p \in {<<0, 0>>, <<dirty.width - 1, dirty.height - 1>>,
               <<dirty.width, dirty.height>>} :
        MarkPointAt(p[1], p[2])

MarkGridRect ==
    \E y \in 0..(dirty.height - 1) : MarkRectOf(Rect(0, y, dirty.width, 1))

ResizeGrid == \E s \in GridSizes : ResizeTo(s[1], s[2])

GridNext ==
    \/ MarkGridPoint
    \/ MarkGridRect
    \/ MarkFull
    \/ ResizeGrid
    \/ TakeRegions /\ UNCHANGED arg

SpecGrid == GridInit /\ [][GridNext]_vars

\* no bit outside the tiles_x * tiles_y grid is set, and the bitmap has
\* ceil(tiles_x * tiles_y / 64) words
BitmapFitsGrid(d) ==
    /\ d.bits \subseteq 0..(d.tiles_x * d.tiles_y - 1)
    /\ 64 * d.words >= d.tiles_x * d.tiles_y
    /\ 64 * (d.words - 1) < d.tiles_x * d.tiles_y

\* C29 as stated: in every reachable state the dirty-tile counter equals the
\* number of set tile bits, no bit outside the grid is set and the bitmap
\* has ceil(tiles_x * tiles_y / 64) words.  The counter is a u32 raised by
\* saturating_add: a grid of 2^WordBits tiles, all set, leaves it one short.
C29_CounterIsBitCount ==
    /\ dirty.dirty_tiles = Cardinality(dirty.bits)
    /\ BitmapFitsGrid(dirty)

\* C29: in every reachable state the dirty-tile counter equals the number of
\* set tile bits, saturating at the largest u32; no bit outside the grid is
\* set and the bitmap has ceil(tiles_x * tiles_y / 64) words; the counter is
\* 0 exactly when no tile bit is set.
C29_CounterSaturates ==
    /\ dirty.dirty_tiles = Min(Cardinality(dirty.bits), U32_MAX)
    /\ BitmapFitsGrid(dirty)
    /\ dirty.dirty_tiles = 0 <=> dirty.bits = {}

\* every tile of the largest grid set by marks of single rows and points
C29_Witness ==
    /\ op \in {"mark_rect", "mark_point"}
    /\ ~dirty.full
    /\ Cardinality(hist.marked) = GridW * GridH
    /\ Cardinality(dirty.bits) = U32_MAX + 1
    /\ dirty.dirty_tiles = U32_MAX

(***************************************************************************)
(* The pixel surfaces (src/src/argb1555.rs, src/src/indexed.rs).           *)
(* SpecSurface drives a PixstageArgb1555, SpecIndexed a PixstageIndexed.   *)
(***************************************************************************)
PixelValues == {0, 255}
BufferSizes == {s \in (1..MaxSide) \X (1..MaxSide) : s[1] * s[2] <= MaxPixels}
\* arguments of the constructor and of resize_buffer: the sizes above and
\* those with a zero dimension
SizeArgs == {s \in (0..MaxSide) \X (0..MaxSide) : s[1] * s[2] <= MaxPixels}

\* the tile edge the surfaces pass to DirtyTiles::new, and the cap render()
\* passes to take_regions
TILE_SIZE == 32
MAX_REGIONS == 64
\* the model runs the surfaces with tiles of TILE_SIZE and of 1..MaxTile
\* pixels, so that a buffer of a few pixels has several tiles; render()
\* drains with MAX_REGIONS or with SmallCap, so that the collapse happens
SurfaceTiles == (1..MaxTile) \cup {TILE_SIZE}
RenderCaps == {SmallCap, MAX_REGIONS}

\* the sizes of the window surface: SurfaceTexture::new and resize_surface
\* keep both dimensions above 0
SurfaceSizes == {<<1, 1>>, <<MaxSurfaceW, MaxSurfaceH>>}
\* the sizes with a zero dimension that a caller may pass to them
ZeroSizes == {<<0, 0>>, <<0, 1>>, <<1, 0>>}

\* SurfaceTexture::new
SurfaceTextureNew(w, h) ==
    IF w = 0 \/ h = 0 THEN Err("InvalidSurfaceSize") ELSE Ok(<<w, h>>)
ScalingModes == {"PixelPerfect", "Fill"}

\* the rectangles passed to mark_dirty: an origin inside the buffer or at the
\* largest u32, one pixel or the largest extent both ways (Spec covers
\* mark_rect with more arguments)
DirtyXs == (0..(width - 1)) \cup {U32_MAX}
DirtyYs == (0..(height - 1)) \cup {U32_MAX}
DirtyExtents == {<<1, 1>>, <<U32_MAX, U32_MAX>>}

scalings == <<surface_config, scaling_mode, scaling_state>>

\* compute_scaling for every buffer size, surface size and mode of the model,
\* tabulated once (@@ builds the table explicitly)
ScalingOf ==
    [k \in (BufferSizes \cup {<<CheckerW, CheckerH>>})
             \X (SurfaceSizes \cup ZeroSizes) \X ScalingModes |->
        compute_scaling(k[1], k[2], k[3])] @@ << >>

\* recompute_scaling: the ScalingState stored for the current sizes and mode
recompute_scaling(buffer_size, surface_size, mode) ==
    ScalingOf[<<buffer_size, surface_size, mode>>]

\* the size check of the constructors and of resize_buffer
InvalidBufferSize(w, h) == w = 0 \/ h = 0

SizeClass(w, h) == IF w = 0 \/ h = 0 THEN "zero" ELSE "nonzero"
PosClass(x, y, w, h) == IF x < w /\ y < h THEN "in_range" ELSE "out_of_range"

\* the palette: 256 colours, of which the model keeps the last entry; a
\* colour is opaque black, as the constructor sets it, or opaque white
PALETTE_LEN == 256
PaletteIndexes == {PALETTE_LEN - 1}
Black == <<0, 0, 0, 255>>
White == <<255, 255, 255, 255>>
Colors == {Black, White}
InitialPalette == [i \in PaletteIndexes |-> Black]

\* upload_palette: what the palette texture holds after it
upload_palette(pal) == pal

\* new_async_with_options.  A rejected construction leaves no surface: the
\* state keeps the requested size in width and height and no method can be
\* called.
SurfaceInit(enc, sizes, tiles, windows, modes) ==
    /\ encoding = enc
    /\ \E s \in sizes, t \in tiles :
          /\ width = s[1]
          /\ height = s[2]
          /\ arg = SizeClass(s[1], s[2])
          /\ surface_config \in windows
          /\ scaling_mode \in modes
          /\ IF \/ SurfaceTextureNew(surface_config[1], surface_config[2]).tag = "Err"
                \/ InvalidBufferSize(s[1], s[2])
             THEN /\ result = "err"
                  /\ pixels = << >>
                  /\ texture = create_texture(0, 0)
                  /\ dirty = None
                  /\ scaling_state = None
                  /\ hist = NoHist
                  /\ palette = NoPalette
                  /\ gpu_palette = NoPalette
             ELSE /\ result = "ok"
                  /\ pixels = [i \in 1..(s[1] * s[2]) |-> 0]
                  /\ texture = create_texture(s[1], s[2])
                  /\ dirty = mark_full(DirtyNew(s[1], s[2], t))
                  /\ scaling_state = recompute_scaling(s, surface_config, scaling_mode)
                  /\ hist = [NoHist EXCEPT !.full = TRUE]
                  /\ palette = (IF enc = "indexed" THEN InitialPalette ELSE NoPalette)
                  /\ gpu_palette = upload_palette(palette)
    /\ palette_dirty = FALSE
    /\ op = "new"
    /\ ret = << >>
    /\ cap = 0
    /\ frags = << >>
    /\ consumed = NotADrain
    /\ gpu = NoCalls

\* a surface exists: the construction succeeded
Constructed == ~(op = "new" /\ result = "err")

\* set_pixel, accepting the first column and row outside the buffer
set_pixel_off_by_one(pix, d, w, h, x, y, v) ==
    IF x > w \/ y > h
    THEN [pixels |-> pix, dirty |-> d]
    ELSE [pixels |-> [pix EXCEPT ![y * w + x + 1] = v], dirty |-> mark_point(d, x, y)]

\* set_pixel, writing at the column-major offset
set_pixel_column_major(pix, d, w, h, x, y, v) ==
    IF x >= w \/ y >= h
    THEN [pixels |-> pix, dirty |-> d]
    ELSE [pixels |-> [pix EXCEPT ![x * h + y + 1] = v], dirty |-> mark_point(d, x, y)]

\* set_pixel (set_index of the indexed surface): the buffer and the tracker
\* after the call
set_pixel(pix, d, w, h, x, y, v) ==
    IF x >= w \/ y >= h
    THEN [pixels |-> pix, dirty |-> d]
    ELSE [pixels |-> [pix EXCEPT ![y * w + x + 1] = v], dirty |-> mark_point(d, x, y)]

\* the call set_pixel(x, y, v), recorded in arg as a
SetPixelAs(x, y, v, a) ==
        /\ Constructed
        /\ pixels' = set_pixel(pixels, dirty, width, height, x, y, v).pixels
        /\ dirty' = set_pixel(pixels, dirty, width, height, x, y, v).dirty
        /\ op' = "set_pixel"
        /\ arg' = a
        /\ result' = "ok"
        /\ NoDrain
        /\ UNCHANGED <<hist, encoding, width, height, texture, scalings, pvars>>

SetPixelAt(x, y, v) == SetPixelAs(x, y, v, PosClass(x, y, width, height))

SetPixel ==
    \E x \in 0..width, y \in 0..height, v \in PixelValues : SetPixelAt(x, y, v)

\* clear (PixstageArgb1555 only)
Clear ==
    \E v \in PixelValues :
        /\ Constructed
        /\ pixels' = [i \in 1..Len(pixels) |-> v]
        /\ dirty' = mark_full(dirty)
        /\ hist' = [hist EXCEPT !.full = TRUE, !.framed = TRUE]
        /\ op' = "clear"
        /\ arg' = "none"
        /\ result' = "ok"
        /\ NoDrain
        /\ UNCHANGED <<encoding, width, height, texture, scalings, pvars>>

\* frame_mut, leaving the tracker alone
frame_mut_unmarked(d) == d

\* frame_mut: what it does to the tracker before it returns the slice
frame_mut(d) == mark_full(d)

\* what a caller may leave in the slice frame_mut returned: the buffer as it
\* was, or with one element replaced
Writes(pix) ==
    {pix} \cup {[pix EXCEPT ![i] = v] : i \in 1..Len(pix), v \in PixelValues}

\* frame_mut, and the caller writing through the returned slice
FrameMut ==
    \E written \in Writes(pixels) :
        /\ Constructed
        /\ dirty' = frame_mut(dirty)
        /\ pixels' = written
        /\ hist' = [hist EXCEPT !.full = TRUE, !.framed = TRUE]
        /\ op' = "frame_mut"
        /\ arg' = "none"
        /\ result' = "ok"
        /\ NoDrain
        /\ UNCHANGED <<encoding, width, height, texture, scalings, pvars>>

\* mark_dirty
MarkDirty ==
    \E x \in DirtyXs, y \in DirtyYs, e \in DirtyExtents :
        /\ Constructed
        /\ dirty' = mark_rect(dirty, Rect(x, y, e[1], e[2]))
        /\ op' = "mark_dirty"
        /\ arg' = "none"
        /\ result' = "ok"
        /\ NoDrain
        /\ UNCHANGED <<hist, svars>>

\* the fields of the surface that resize_buffer works on
Surface ==
    [width |-> width, height |-> height, pixels |-> pixels, dirty |-> dirty,
     texture |-> texture, scaling_state |-> scaling_state]

\* resize_buffer, resizing the pixel vector before it checks the size
resize_buffer_late_check(s, w, h) ==
    IF InvalidBufferSize(w, h)
    THEN [result |-> "err", s |-> [s EXCEPT !.pixels = VecResize(s.pixels, w * h)]]
    ELSE [result |-> "ok",
          s |-> [width |-> w, height |-> h,
                 pixels |-> VecResize(s.pixels, w * h),
                 dirty |-> mark_full(DirtyResize(s.dirty, w, h)),
                 texture |-> create_texture(w, h),
                 scaling_state |-> recompute_scaling(<<w, h>>, surface_config, scaling_mode)]]

\* resize_buffer without the call of recompute_scaling
resize_buffer_stale_scaling(s, w, h) ==
    IF InvalidBufferSize(w, h)
    THEN [result |-> "err", s |-> s]
    ELSE [result |-> "ok",
          s |-> [width |-> w, height |-> h,
                 pixels |-> VecResize(s.pixels, w * h),
                 dirty |-> mark_full(DirtyResize(s.dirty, w, h)),
                 texture |-> create_texture(w, h),
                 scaling_state |-> s.scaling_state]]

\* resize_buffer: how it returns, and the surface after the call
resize_buffer(s, w, h) ==
    IF InvalidBufferSize(w, h)
    THEN [result |-> "err", s |-> s]
    ELSE [result |-> "ok",
          s |-> [width |-> w, height |-> h,
                 pixels |-> VecResize(s.pixels, w * h),
                 dirty |-> mark_full(DirtyResize(s.dirty, w, h)),
                 texture |-> create_texture(w, h),
                 scaling_state |-> recompute_scaling(<<w, h>>, surface_config, scaling_mode)]]

ResizeBuffer ==
    \E a \in SizeArgs :
        LET r == resize_buffer(Surface, a[1], a[2])
        IN  /\ Constructed
            /\ result' = r.result
            /\ width' = r.s.width
            /\ height' = r.s.height
            /\ pixels' = r.s.pixels
            /\ dirty' = r.s.dirty
            /\ texture' = r.s.texture
            /\ scaling_state' = r.s.scaling_state
            /\ hist' = IF r.result = "ok"
                       THEN [hist EXCEPT !.marked = {}, !.full = TRUE, !.resized = TRUE]
                       ELSE hist
            /\ op' = "resize_buffer"
            /\ arg' = SizeClass(a[1], a[2])
            /\ NoDrain
            /\ UNCHANGED <<encoding, surface_config, scaling_mode, pvars>>

\* resize_surface
\* resize_surface, taking a size with a zero dimension as it comes
resize_surface_unchecked(config, state, buffer_size, mode, w, h) ==
    [surface_config |-> <<w, h>>,
     scaling_state |-> recompute_scaling(buffer_size, <<w, h>>, mode)]

\* resize_surface: the surface size and the scaling state after the call
resize_surface(config, state, buffer_size, mode, w, h) ==
    IF w = 0 \/ h = 0
    THEN [surface_config |-> config, scaling_state |-> state]
    ELSE [surface_config |-> <<w, h>>,
          scaling_state |-> recompute_scaling(buffer_size, <<w, h>>, mode)]

ResizeSurface ==
    \E s \in SurfaceSizes \cup ZeroSizes :
        /\ Constructed
        /\ surface_config' = resize_surface(surface_config, scaling_state,
                <<width, height>>, scaling_mode, s[1], s[2]).surface_config
        /\ scaling_state' = resize_surface(surface_config, scaling_state,
                <<width, height>>, scaling_mode, s[1], s[2]).scaling_state
        /\ op' = "resize_surface"
        /\ arg' = SizeClass(s[1], s[2])
        /\ result' = "ok"
        /\ NoDrain
        /\ UNCHANGED <<dirty, hist, encoding, width, height, pixels, texture, scaling_mode, pvars>>

\* set_scaling_mode
SetScalingMode ==
    \E m \in ScalingModes :
        /\ Constructed
        /\ IF scaling_mode = m
           THEN UNCHANGED <<scaling_mode, scaling_state>>
           ELSE /\ scaling_mode' = m
                /\ scaling_state' = recompute_scaling(<<width, height>>, surface_config, m)
        /\ op' = "set_scaling_mode"
        /\ arg' = "none"
        /\ result' = "ok"
        /\ NoDrain
        /\ UNCHANGED <<dirty, hist, encoding, width, height, pixels, texture, surface_config, pvars>>

\* what get_current_texture can return
Acquisitions == {"frame", "lost"}

\* get_current_texture().or_else(|_| { configure; get_current_texture() }),
\* given what the first and the second acquisition return
get_frame(first, second) ==
    IF first = "frame"
    THEN [frame |-> first, acquires |-> 1, configures |-> 0]
    ELSE [frame |-> second, acquires |-> 2, configures |-> 1]

\* render, re-acquiring until a frame is there (at most three attempts)
render_keeps_retrying(first, second) ==
    LET f == get_frame(first, second)
    IN  IF f.frame = "frame"
        THEN [result |-> "ok", acquires |-> f.acquires, configures |-> f.configures,
              uploads |-> 1, draws |-> 1, presents |-> 1]
        ELSE [result |-> "ok", acquires |-> 3, configures |-> 2,
              uploads |-> 1, draws |-> 1, presents |-> 1]

\* render: how it returns and what it asks of the surface and the queue
render(first, second) ==
    LET f == get_frame(first, second)
    IN  IF f.frame = "frame"
        THEN [result |-> "ok", acquires |-> f.acquires, configures |-> f.configures,
              uploads |-> 1, draws |-> 1, presents |-> 1]
        ELSE [result |-> "err", acquires |-> f.acquires, configures |-> f.configures,
              uploads |-> 0, draws |-> 0, presents |-> 0]

\* render from its first line: nothing is done for a surface of zero area
render_surface(config, first, second) ==
    IF config[1] = 0 \/ config[2] = 0
    THEN [result |-> "ok", acquires |-> 0, configures |-> 0,
          uploads |-> 0, draws |-> 0, presents |-> 0]
    ELSE render(first, second)

\* `if self.palette_dirty { self.upload_palette(); }`, looking at the pixel
\* tracker instead of the flag
render_palette_with_pixels(pal, gpal, flag) ==
    IF dirty.full \/ dirty.dirty_tiles > 0
    THEN [gpu_palette |-> upload_palette(pal), palette_dirty |-> FALSE, palettes |-> 1]
    ELSE [gpu_palette |-> gpal, palette_dirty |-> flag, palettes |-> 0]

\* `if self.palette_dirty { self.upload_palette(); }` of PixstageIndexed::render
\* (the flag of a PixstageArgb1555, which has no palette, is never set)
render_palette(pal, gpal, flag) ==
    IF flag
    THEN [gpu_palette |-> upload_palette(pal), palette_dirty |-> FALSE, palettes |-> 1]
    ELSE [gpu_palette |-> gpal, palette_dirty |-> flag, palettes |-> 0]

\* render draining the tracker before it has a frame
upload_dirty_regions_before_frame(d, max_regions, uploads) ==
    take_regions(d, max_regions)

\* self.upload_dirty_regions(), which render calls once it has a frame
\* (uploads = 1) and not at all when it returns the acquisition error
\* (uploads = 0): the drain of the tracker
upload_dirty_regions(d, max_regions, uploads) ==
    IF uploads = 0
    THEN [d |-> d, out |-> << >>, frags |-> << >>]
    ELSE take_regions(d, max_regions)

\* the `for region in regions` loop of upload_dirty_regions: one
\* queue.write_texture for every region
TextureWrites(regions) == Len(regions)

Calls(r, palettes, regions) ==
    [acquires |-> r.acquires, configures |-> r.configures, palettes |-> palettes,
     uploads |-> r.uploads, writes |-> TextureWrites(regions),
     draws |-> r.draws, presents |-> r.presents]

\* render, when a frame is acquired (at the first attempt or at the retry),
\* draining with one of the given caps
RenderWith(caps) ==
    \E c \in caps, first \in Acquisitions, second \in Acquisitions :
        LET r == render_surface(surface_config, first, second)
            t == upload_dirty_regions(dirty, c, r.uploads)
            pl == IF r.uploads = 0
                  THEN [gpu_palette |-> gpu_palette, palette_dirty |-> palette_dirty,
                        palettes |-> 0]
                  ELSE render_palette(palette, gpu_palette, palette_dirty)
        IN  /\ Constructed
            /\ r.result = "ok"
            /\ dirty' = t.d
            /\ ret' = t.out
            /\ frags' = t.frags
            /\ cap' = c
            /\ texture' = UploadRegions(encoding, texture, pixels, width, height, t.out)
            /\ consumed' = (IF r.uploads = 0 THEN NotADrain
                            ELSE Drained(hist, op = "render" /\ result = "ok"))
            /\ hist' = (IF r.uploads = 0 THEN hist ELSE NoHist)
            /\ gpu_palette' = pl.gpu_palette
            /\ palette_dirty' = pl.palette_dirty
            /\ gpu' = Calls(r, pl.palettes, t.out)
            /\ op' = "render"
            /\ arg' = "none"
            /\ result' = "ok"
            /\ UNCHANGED <<encoding, width, height, pixels, scalings, palette>>

RenderOk == RenderWith(RenderCaps)

\* render, when the frame acquisition fails twice: the error is returned
\* before anything is uploaded
RenderErr ==
    \E first \in Acquisitions, second \in Acquisitions :
        LET r == render_surface(surface_config, first, second)
            t == upload_dirty_regions(dirty, MAX_REGIONS, r.uploads)
        IN  /\ Constructed
            /\ r.result = "err"
            /\ dirty' = t.d
            /\ gpu' = Calls(r, 0, t.out)
            /\ op' = "render"
            /\ arg' = "none"
            /\ result' = "err"
            /\ ret' = << >> /\ cap' = 0 /\ frags' = << >> /\ consumed' = NotADrain
            /\ UNCHANGED <<hist, svars>>

\* what a caller may leave in the array palette_mut returned: the palette as
\* it was, or with one entry replaced
PaletteWrites(pal) ==
    {pal} \cup {[pal EXCEPT ![i] = c] : i \in DOMAIN pal, c \in Colors}

\* palette_mut, and the caller writing through the returned reference
PaletteMut ==
    \E written \in PaletteWrites(palette) :
        /\ Constructed
        /\ palette_dirty' = TRUE
        /\ palette' = written
        /\ op' = "palette_mut"
        /\ arg' = "none"
        /\ result' = "ok"
        /\ NoDrain
        /\ UNCHANGED <<dirty, hist, encoding, width, height, pixels, texture,
                       scalings, gpu_palette>>

\* set_palette_entry
SetPaletteEntry ==
    \E i \in PaletteIndexes, c \in Colors :
        /\ Constructed
        /\ palette' = [palette EXCEPT ![i] = c]
        /\ palette_dirty' = TRUE
        /\ op' = "set_palette_entry"
        /\ arg' = "none"
        /\ result' = "ok"
        /\ NoDrain
        /\ UNCHANGED <<dirty, hist, encoding, width, height, pixels, texture,
                       scalings, gpu_palette>>

SurfaceNext ==
    \/ SetPixel
    \/ Clear
    \/ FrameMut
    \/ MarkDirty
    \/ ResizeBuffer
    \/ RenderOk
    \/ RenderErr

\* a PixstageArgb1555 in a window that keeps its size and its scaling mode
Argb1555Init == SurfaceInit("argb1555", SizeArgs, SurfaceTiles, {<<MaxSurfaceW, MaxSurfaceH>>}, {"PixelPerfect"})

SpecSurface == Argb1555Init /\ [][SurfaceNext]_vars

\* PixstageIndexed has the same methods except clear
IndexedNext ==
    \/ SetPixel
    \/ FrameMut
    \/ MarkDirty
    \/ ResizeBuffer
    \/ RenderOk
    \/ RenderErr

IndexedInit == SurfaceInit("indexed", SizeArgs, SurfaceTiles, {<<MaxSurfaceW, MaxSurfaceH>>}, {"PixelPerfect"})

SpecIndexed == IndexedInit /\ [][IndexedNext]_vars

\* a PixstageIndexed with its palette, with the tile size the constructor uses
PaletteNext ==
    \/ SetPixel
    \/ FrameMut
    \/ MarkDirty
    \/ ResizeBuffer
    \/ PaletteMut
    \/ SetPaletteEntry
    \/ RenderOk
    \/ RenderErr

PaletteInit == SurfaceInit("indexed", SizeArgs, {TILE_SIZE}, {<<MaxSurfaceW, MaxSurfaceH>>}, {"PixelPerfect"})

SpecPalette == PaletteInit /\ [][PaletteNext]_vars

\* the window and the scaling mode changing around a surface
ScalingNext ==
    \/ ResizeBuffer
    \/ ResizeSurface
    \/ SetScalingMode
    \/ SetPixel
    \/ FrameMut
    \/ MarkDirty
    \/ RenderOk
    \/ RenderErr

ScalingInit == SurfaceInit("argb1555", SizeArgs, {TILE_SIZE}, SurfaceSizes, ScalingModes)

SpecScaling == ScalingInit /\ [][ScalingNext]_vars

\* the same surface asked for with any window size, a zero width or height
\* included
WindowInit ==
    SurfaceInit("argb1555", BufferSizes, {TILE_SIZE}, SurfaceSizes \cup ZeroSizes,
                ScalingModes)

SpecWindow == WindowInit /\ [][ScalingNext]_vars

(***************************************************************************)
(* SpecFrame: a PixstageArgb1555 of CheckerW x CheckerH pixels in tiles of *)
(* one pixel.  The caller sets the pixels of the checkerboard one after    *)
(* the other, from the top left, to the value they hold (a write marks its *)
(* tile whatever the value), and renders at any time; render() drains with *)
(* MAX_REGIONS as the code does.                                           *)
(***************************************************************************)
IsChecker(p) == (p[1] + p[2]) % 2 = 0

\* the pixels of the checkerboard, row by row
Checker ==
    SelectSeq([i \in 1..(CheckerW * CheckerH) |->
                  <<(i - 1) % CheckerW, (i - 1) \div CheckerW>>],
              IsChecker)

\* set_pixel on the first pixel of the checkerboard that is not marked yet
SetCheckerPixel ==
    \E k \in 1..Len(Checker) :
        /\ k = (IF dirty.full THEN 1 ELSE dirty.dirty_tiles + 1)
        /\ SetPixelAt(Checker[k][1], Checker[k][2], 0)

RenderFrame == RenderWith({MAX_REGIONS})

FrameNext ==
    \/ SetCheckerPixel
    \/ RenderFrame
    \/ RenderErr

FrameInit ==
    SurfaceInit("argb1555", {<<CheckerW, CheckerH>>}, {1},
                {<<MaxSurfaceW, MaxSurfaceH>>}, {"PixelPerfect"})

SpecFrame == FrameInit /\ [][FrameNext]_vars

\* the tracker holds nothing to upload
Clean(d) == d.bits = {} /\ d.dirty_tiles = 0 /\ ~d.full

\* C21: every render() issues at most MAX_REGIONS (64) texture writes of
\* pixel data, one for every region of a drain with the cap MAX_REGIONS, and
\* none when it fails to acquire a frame or when nothing is dirty; after a
\* successful render() the tracker is clean.
C21_UploadBounded ==
    /\ [](op = "render"
            => /\ gpu.writes <= MAX_REGIONS
               /\ result = "ok"
                    => /\ cap = MAX_REGIONS
                       /\ consumed.drained
                       /\ gpu.writes = Len(ret)
                       /\ Clean(dirty)
               /\ result = "err" => gpu.writes = 0)
    /\ [][(op' = "render" /\ Clean(dirty)) => gpu'.writes = 0]_vars

\* a render that wrote MAX_REGIONS separate regions
C21_Witness ==
    /\ op = "render" /\ result = "ok"
    /\ gpu.writes = MAX_REGIONS
    /\ Len(frags) = MAX_REGIONS

(***************************************************************************)
(* SpecPixel: a PixstageArgb1555 whose set_pixel calls are recorded with   *)
(* their arguments, arg = <<x, y, v>>, between frame_mut calls and         *)
(* renders.                                                                *)
(***************************************************************************)
SetPixelXY ==
    \E x \in 0..width, y \in 0..height, v \in PixelValues :
        SetPixelAs(x, y, v, <<x, y, v>>)

PixelNext ==
    \/ SetPixelXY
    \/ FrameMut
    \/ RenderOk
    \/ RenderErr

SpecPixel == Argb1555Init /\ [][PixelNext]_vars

\* the tile of pixel (x, y), clipped to the buffer
TileRect(d, x, y) ==
    clamp_to(Rect((x \div d.tile_size) * d.tile_size, (y \div d.tile_size) * d.tile_size,
                  d.tile_size, d.tile_size),
             d.width, d.height)

\* C31: a set_pixel(x, y, v) with x < width and y < height writes v at the
\* row-major offset y * width + x and changes no other pixel; it sets the
\* bit of the tile (x div tile_size, y div tile_size) and no other, raising
\* the counter by one when the bit was clear, and changes nothing of a
\* fully dirty tracker; a successful render right after it, on a tracker
\* with no other dirty tile, uploads exactly one rectangle, that tile
\* clipped to the buffer, which contains (x, y).
C31_SetPixelExact ==
    /\ [][(op' = "set_pixel" /\ arg'[1] < width /\ arg'[2] < height)
            => /\ Len(pixels') = Len(pixels)
               /\ pixels'[arg'[2] * width + arg'[1] + 1] = arg'[3]
               /\ \A k \in 1..Len(pixels) :
                     k # arg'[2] * width + arg'[1] + 1 => pixels'[k] = pixels[k]
               /\ IF dirty.full THEN dirty' = dirty
                  ELSE /\ dirty'.bits = dirty.bits \cup
                            {BitPos(dirty, arg'[1] \div dirty.tile_size,
                                           arg'[2] \div dirty.tile_size)}
                       /\ dirty'.dirty_tiles = Cardinality(dirty'.bits)
                       /\ ~dirty'.full]_vars
    /\ [][(/\ op = "set_pixel" /\ arg[1] < width /\ arg[2] < height
            /\ ~dirty.full /\ dirty.dirty_tiles = 1
            /\ op' = "render" /\ result' = "ok")
            => /\ ret' = <<TileRect(dirty, arg[1], arg[2])>>
               /\ Covers(ret'[1], <<arg[1], arg[2]>>)
               /\ gpu'.writes = 1]_vars

\* a render that follows a set_pixel of a non-zero value and uploads one
\* tile that is not the whole buffer
C31_Witness ==
    /\ op = "render" /\ result = "ok"
    /\ ~consumed.full
    /\ Len(ret) = 1
    /\ ret[1] # Rect(0, 0, width, height)
    /\ gpu.writes = 1
    /\ \E k \in 1..Len(pixels) : pixels[k] # 0

(***************************************************************************)
(* SpecRect: Rect::union applied to two rectangles, Rect::clamp_to to a    *)
(* rectangle and bounds.  The fields of a Rect are public: any u32 is a    *)
(* field value, 0 as an extent included.                                   *)
(***************************************************************************)
RectXs == (0..MaxRectSide) \cup {U32_MAX}
RectYs == {0, 1, U32_MAX}
RectWidths == (0..MaxRectSide) \cup {U32_MAX}
RectHeights == {0, 1, U32_MAX}
\* the drawn rectangles, and those of the documented example
Rects ==
    {Rect(x, y, w, h) : x \in RectXs, y \in RectYs, w \in RectWidths, h \in RectHeights}
        \cup {Rect(0, 0, 10, 10), Rect(5, 5, 10, 10)}
BoundWidths == (0..(MaxRectSide + 1)) \cup {U32_MAX}
BoundHeights == {0, 1, 2, U32_MAX}

\* before the call: arg holds <<a, b>> for union, <<rect, width, height>> for
\* clamp_to
RectInit ==
    /\ arg \in (Rects \X Rects) \cup (Rects \X BoundWidths \X BoundHeights)
    /\ dirty = None
    /\ op = "call"
    /\ result = "ok"
    /\ ret = << >>
    /\ cap = 0
    /\ frags = << >>
    /\ hist = NoHist
    /\ consumed = NotADrain
    /\ gpu = NoCalls
    /\ NoSurface

\* a.union(b)
Union ==
    /\ op = "call"
    /\ Len(arg) = 2
    /\ result' = union(arg[1], arg[2])
    /\ op' = "union"
    /\ UNCHANGED <<dirty, svars, arg, ret, cap, frags, hist, consumed, gpu>>

\* rect.clamp_to(width, height)
ClampTo ==
    /\ op = "call"
    /\ Len(arg) = 3
    /\ result' = clamp_to(arg[1], arg[2], arg[3])
    /\ op' = "clamp_to"
    /\ UNCHANGED <<dirty, svars, arg, ret, cap, frags, hist, consumed, gpu>>

RectNext == Union \/ ClampTo

SpecRect == RectInit /\ [][RectNext]_vars

\* width and height are at least 1
NonDegenerate(r) == r.width >= 1 /\ r.height >= 1
\* x + width and y + height are u32 values
EdgesFit(r) == r.x + r.width <= U32_MAX /\ r.y + r.height <= U32_MAX

\* C22: for non-degenerate a and b whose right and bottom edges do not
\* overflow u32, a.union(b) starts at (min of the xs, min of the ys), ends at
\* (max of the rights, max of the bottoms), is at least 1 x 1, equals
\* b.union(a), and a.union(a) = a; Rect{0,0,10,10}.union(Rect{5,5,10,10}) is
\* Rect{0,0,15,15}.
C22_UnionSmallest ==
    (/\ op = "union"
     /\ NonDegenerate(arg[1]) /\ NonDegenerate(arg[2])
     /\ EdgesFit(arg[1]) /\ EdgesFit(arg[2]))
    => /\ result.x = Min(arg[1].x, arg[2].x)
       /\ result.y = Min(arg[1].y, arg[2].y)
       /\ result.x + result.width
            = Max(arg[1].x + arg[1].width, arg[2].x + arg[2].width)
       /\ result.y + result.height
            = Max(arg[1].y + arg[1].height, arg[2].y + arg[2].height)
       /\ NonDegenerate(result)
       /\ result = union(arg[2], arg[1])
       /\ arg[1] = arg[2] => result = arg[1]
       /\ arg = <<Rect(0, 0, 10, 10), Rect(5, 5, 10, 10)>>
            => result = Rect(0, 0, 15, 15)

\* the documented example, with the first rectangle starting before the
\* second
C22_Witness ==
    /\ op = "union"
    /\ arg = <<Rect(5, 5, 10, 10), Rect(0, 0, 10, 10)>>
    /\ result = Rect(0, 0, 15, 15)

\* C23: clamp_to(w, h) returns None when x >= w or y >= h (which includes
\* w = 0 and h = 0) or when the rectangle is degenerate; otherwise it returns
\* the rectangle with the same origin, width min(x + width, w) - x >= 1 and
\* height min(y + height, h) - y >= 1: the result lies inside the bounds and
\* inside the rectangle, and clamping it again returns it unchanged.
C23_ClampIntersects ==
    op = "clamp_to" =>
        LET r == arg[1]
            w == arg[2]
            h == arg[3]
        IN  IF r.x >= w \/ r.y >= h \/ ~NonDegenerate(r)
            THEN result = None
            ELSE /\ result = Rect(r.x, r.y, Min(r.x + r.width, w) - r.x,
                                  Min(r.y + r.height, h) - r.y)
                 /\ NonDegenerate(result)
                 /\ result.x + result.width <= w
                 /\ result.y + result.height <= h
                 /\ result.x + result.width <= r.x + r.width
                 /\ result.y + result.height <= r.y + r.height
                 /\ clamp_to(result, w, h) = result

\* a rectangle whose right edge passes u32::MAX, cut at bounds it starts in
C23_Witness ==
    /\ op = "clamp_to"
    /\ arg[1].x >= 1
    /\ arg[1].x + arg[1].width > U32_MAX
    /\ result # None
    /\ result.width < arg[1].width
    /\ result.x + result.width = arg[2]

(***************************************************************************)
(* Properties of the surfaces, checked under SpecSurface.                  *)
(***************************************************************************)
FullBuffer == Rect(0, 0, width, height)

\* C2: after every successful render the texture has the size of the buffer
\* and holds, at every pixel, the converted value of the buffer's pixel: what
\* uploading the whole buffer on every render would leave there.
C2_NoMissedUpdates ==
    (op = "render" /\ result = "ok")
    => /\ texture.width = width
       /\ texture.height = height
       /\ \A i \in 1..(width * height) : texture.data[i] = Texel(encoding, pixels[i])

\* a render that uploaded two separate regions of a buffer holding a set pixel
C2_Witness ==
    /\ op = "render" /\ result = "ok"
    /\ Len(ret) = 2
    /\ \E i \in 1..Len(pixels) : pixels[i] # 0
    /\ \E i \in 1..Len(pixels) : pixels[i] = 0

\* C6: a successful resize_buffer(w, h) leaves the tracker with the new
\* dimensions, a tile grid and a bitmap sized for them and the full flag set,
\* and the first drain after it returns the one rectangle (0, 0, w, h).
C6_ResizeForcesFull ==
    /\ (op = "resize_buffer" /\ result = "ok")
       => /\ dirty.width = width
          /\ dirty.height = height
          /\ (dirty.tiles_x - 1) * dirty.tile_size < width
          /\ width <= dirty.tiles_x * dirty.tile_size
          /\ (dirty.tiles_y - 1) * dirty.tile_size < height
          /\ height <= dirty.tiles_y * dirty.tile_size
          /\ (dirty.words - 1) * 64 < dirty.tiles_x * dirty.tiles_y
          /\ dirty.tiles_x * dirty.tiles_y <= dirty.words * 64
          /\ dirty.bits = {}
          /\ dirty.full
    /\ (op = "render" /\ result = "ok" /\ consumed.resized)
       => ret = <<FullBuffer>>

\* the drain after a resize to a buffer of several tiles, with no frame_mut
\* or clear in between
C6_Witness ==
    /\ op = "render" /\ result = "ok"
    /\ consumed.resized /\ ~consumed.framed
    /\ dirty.tiles_x >= 2
    /\ ret = <<FullBuffer>>

\* C7: after a successful resize_buffer the buffer has width * height
\* elements and every one of them is zero.
C7_ResizeZeroes ==
    (op = "resize_buffer" /\ result = "ok")
    => /\ Len(pixels) = width * height
       /\ \A i \in 1..Len(pixels) : pixels[i] = 0

\* C8: the constructor and resize_buffer reject a size with a zero width or
\* height, and a rejected resize_buffer leaves the dimensions, the pixels,
\* the tracker and the scaling state as they were.
C8_ZeroSizeRejected ==
    /\ []((op = "new" /\ arg = "zero") => result = "err")
    /\ [][(op' = "resize_buffer" /\ arg' = "zero")
            => /\ result' = "err"
               /\ UNCHANGED <<width, height, pixels, dirty, scaling_state>>]_vars

\* a rejected resize_buffer on a surface with a set pixel and a dirty tile
C8_Witness ==
    /\ op = "resize_buffer" /\ arg = "zero" /\ result = "err"
    /\ dirty.dirty_tiles > 0
    /\ \E i \in 1..Len(pixels) : pixels[i] # 0

\* C9: set_pixel with x >= width or y >= height returns normally and changes
\* neither the pixels nor the tracker.
C9_OutOfRangeIgnored ==
    [][(op' = "set_pixel" /\ arg' = "out_of_range")
         => /\ result' = "ok"
            /\ pixels' = pixels
            /\ dirty' = dirty]_vars

\* an out-of-range set_pixel on a surface whose tracker is not fully dirty
C9_Witness ==
    /\ op = "set_pixel" /\ arg = "out_of_range"
    /\ ~dirty.full
    /\ height >= 2

\* C10: the first drain after a frame_mut or a clear returns the one
\* rectangle covering the whole buffer.
C10_FrameMutMarksFull ==
    (op = "render" /\ result = "ok" /\ consumed.framed)
    => ret = <<FullBuffer>>

\* the drain after a frame_mut or clear on a buffer of several tiles that was
\* not resized since the drain before
C10_Witness ==
    /\ op = "render" /\ result = "ok"
    /\ consumed.framed /\ ~consumed.resized
    /\ dirty.tiles_x >= 2 /\ dirty.tiles_y >= 2
    /\ ret = <<FullBuffer>>

\* C13: one render() acquires a frame at most twice and configures the
\* surface at most once, and only for the retry; when both acquisitions fail
\* it returns the error without an upload, a draw or a present and leaves
\* the tracker and the texture alone; otherwise it uploads, draws and
\* presents once.
C13_RetryOnce ==
    /\ [](op = "render"
            => /\ gpu.acquires \in {1, 2}
               /\ gpu.configures = gpu.acquires - 1
               /\ result = "err"
                    => /\ gpu.acquires = 2
                       /\ gpu.uploads = 0 /\ gpu.draws = 0 /\ gpu.presents = 0
               /\ result = "ok"
                    => gpu.uploads = 1 /\ gpu.draws = 1 /\ gpu.presents = 1)
    /\ [][(op' = "render" /\ result' = "err")
            => UNCHANGED <<dirty, texture, pixels>>]_vars

\* a render that got its frame at the retry and uploaded a dirty region
C13_Witness ==
    /\ op = "render" /\ result = "ok"
    /\ gpu.acquires = 2 /\ gpu.configures = 1
    /\ ret # << >>

\* C14: palette_mut and set_palette_entry set the palette flag and leave
\* the pixel tracker alone; the pixel operations and a failed render leave
\* the flag alone; a successful render uploads the palette exactly when the
\* flag was set and clears the flag, so that after it the palette texture
\* equals the CPU palette.
C14_PaletteIndependent ==
    /\ [][op' \in {"palette_mut", "set_palette_entry"}
            => palette_dirty' /\ dirty' = dirty]_vars
    /\ [][(\/ op' \in {"set_pixel", "frame_mut", "mark_dirty", "resize_buffer"}
           \/ op' = "render" /\ result' = "err")
            => palette_dirty' = palette_dirty /\ palette' = palette]_vars
    /\ [][(op' = "render" /\ result' = "ok")
            => /\ gpu'.palettes = (IF palette_dirty THEN 1 ELSE 0)
               /\ ~palette_dirty']_vars
    /\ []((op = "render" /\ result = "ok") => gpu_palette = palette)

\* a render that uploaded a changed palette and no pixel region
C14_Witness ==
    /\ op = "render" /\ result = "ok"
    /\ gpu.palettes = 1
    /\ ret = << >>
    /\ palette # InitialPalette
    /\ gpu_palette = palette

\* C24: a render() that returns the acquisition error leaves the tracker
\* (tile bits, counter, full flag) and the palette flag as they were, so that
\* after the next successful render() the texture holds every pixel of the
\* buffer and the palette texture holds the palette.
C24_FailedRenderKeepsDirt ==
    /\ [][(op' = "render" /\ result' = "err")
            => /\ dirty'.bits = dirty.bits
               /\ dirty'.dirty_tiles = dirty.dirty_tiles
               /\ dirty'.full = dirty.full
               /\ palette_dirty' = palette_dirty
               /\ UNCHANGED <<pixels, palette, texture, gpu_palette>>]_vars
    /\ []((op = "render" /\ result = "ok")
            => /\ \A i \in 1..(width * height) :
                    texture.data[i] = Texel(encoding, pixels[i])
               /\ gpu_palette = palette)

\* a failed render on a surface with a dirty tile, a changed pixel and a
\* changed palette waiting for their upload
C24_Witness ==
    /\ op = "render" /\ result = "err"
    /\ ~dirty.full /\ dirty.dirty_tiles > 0
    /\ palette_dirty
    /\ palette # gpu_palette
    /\ \E i \in 1..(width * height) : texture.data[i] # Texel(encoding, pixels[i])

\* C30: a newly constructed surface has its tracker fully dirty and, for the
\* indexed encoding, its palette uploaded and the palette-dirty flag clear;
\* the tracker stays fully dirty until a render succeeds, and a successful
\* render of a fully dirty tracker uploads exactly one region, the whole
\* buffer: so does the first successful render after construction, whether
\* or not a pixel was written before it.
C30_InitiallyFullyDirty ==
    /\ []((op = "new" /\ result = "ok")
            => /\ dirty.full
               /\ ~palette_dirty
               /\ encoding = "indexed" => gpu_palette = upload_palette(palette))
    /\ [][(Constructed /\ dirty.full /\ ~(op' = "render" /\ result' = "ok"))
            => dirty'.full]_vars
    /\ [][(Constructed /\ dirty.full /\ op' = "render" /\ result' = "ok")
            => /\ ret' = <<FullBuffer>>
               /\ gpu'.writes = 1
               /\ ~dirty'.full]_vars

\* the first successful render after construction, no pixel written, no
\* frame_mut and no resize_buffer before it
C30_Witness ==
    /\ encoding = "indexed"
    /\ op = "render" /\ result = "ok"
    /\ consumed.full /\ ~consumed.framed /\ ~consumed.resized
    /\ \A k \in 1..Len(pixels) : pixels[k] = 0
    /\ ret = <<FullBuffer>>
    /\ gpu.writes = 1
    /\ gpu.palettes = 0

(***************************************************************************)
(* SpecCompute: compute_scaling applied to a buffer size, a surface size   *)
(* and a mode, then window_pos_to_pixel applied to a position.  The sizes  *)
(* are all small ones and those of the documented examples.                *)
(***************************************************************************)
ComputeBuffers == ((1..MaxBufSide) \X (1..MaxBufSide)) \cup {<<256, 240>>}
ComputeSurfaces ==
    ((1..MaxWinSide) \X (1..MaxWinSide)) \cup {<<768, 720>>, <<1000, 500>>}

\* window coordinates along a side of n pixels: every pixel of a small side
\* and the first one outside it, the ends and the middle of a large one, and
\* the half positions -0.5 and n - 0.5
SideCoords(n) ==
    IF n <= MaxWinSide + 1 THEN 0..n ELSE {0, n \div 2, n - 1, n}
WindowCoords(n) ==
    {FNorm(k, 0) : k \in SideCoords(n)} \cup {FNorm(0 - 1, 0 - 1), FNorm(2 * n - 1, 0 - 1)}

\* before the call: arg holds <<buffer_size, surface_size, mode>>
ComputeOf(args) ==
    /\ arg \in args
    /\ dirty = None
    /\ op = "call"
    /\ result = "ok"
    /\ ret = << >>
    /\ cap = 0
    /\ frags = << >>
    /\ hist = NoHist
    /\ consumed = NotADrain
    /\ gpu = NoCalls
    /\ NoSurface

ComputeInit == ComputeOf(ComputeBuffers \X ComputeSurfaces \X ScalingModes)

\* the constructor's call: the sizes, the mode and the ScalingState it stores
ComputeScaling ==
    /\ op = "call"
    /\ width' = arg[1][1]
    /\ height' = arg[1][2]
    /\ surface_config' = arg[2]
    /\ scaling_mode' = arg[3]
    /\ scaling_state' = compute_scaling(arg[1], arg[2], arg[3])
    /\ op' = "compute_scaling"
    /\ UNCHANGED <<dirty, encoding, pixels, texture, pvars,
                   arg, result, ret, cap, frags, hist, consumed, gpu>>

\* window_pos_to_pixel(&self, pos): reads the stored state, changes nothing
WindowPosToPixel ==
    /\ op = "compute_scaling"
    /\ \E px \in WindowCoords(surface_config[1]), py \in WindowCoords(surface_config[2]) :
          /\ arg' = <<px, py>>
          /\ result' = window_pos_to_pixel(scaling_state, width, height, <<px, py>>)
    /\ op' = "window_pos_to_pixel"
    /\ UNCHANGED <<dirty, svars, ret, cap, frags, hist, consumed, gpu>>

ComputeNext == ComputeScaling \/ WindowPosToPixel

SpecCompute == ComputeInit /\ [][ComputeNext]_vars

(***************************************************************************)
(* Properties of the scaling computation, checked under SpecCompute.       *)
(***************************************************************************)
\* the sizes the state was computed from
BufW == width
BufH == height
SurW == surface_config[1]
SurH == surface_config[2]
Computed == op \in {"compute_scaling", "window_pos_to_pixel"}

\* max(1, floor(min(sw/bw, sh/bh))) in integers
IntegerScale == Max(1, Min(SurW \div BufW, SurH \div BufH))

NdcExtent(i) == FMul(scaling_state.ndc_scale[i], F32(surface_config[i]))
CloseTo(f, n) == FLess(F32(n - 1), f) /\ FLess(f, F32(n + 1))
\* PixelPerfect crops an axis whose surface extent is below the buffer's
Cropped(buf, sur) == scaling_mode = "PixelPerfect" /\ sur < buf

\* C16 as stated: for every buffer and surface of at least 1x1 and both
\* modes, the cropped PixelPerfect case included, ndc_scale[0] * surface_width
\* is clip_rect.width and ndc_scale[1] * surface_height is clip_rect.height,
\* up to the truncation of the clip extent (less than one pixel).
C16_NdcIsClipOverSurface ==
    Computed =>
        /\ CloseTo(NdcExtent(1), scaling_state.clip_rect.width)
        /\ CloseTo(NdcExtent(2), scaling_state.clip_rect.height)

\* C16 amended: ndc_scale * surface extent is within one pixel of the clip
\* extent on every axis except one that PixelPerfect crops; there the clip
\* extent is the surface extent and ndc_scale * surface extent is within one
\* pixel of the buffer extent (the whole buffer, of which the clip shows the
\* centre).
C16_NdcIsScaledOverSurface ==
    Computed =>
        /\ IF Cropped(BufW, SurW)
           THEN /\ scaling_state.clip_rect.width = SurW
                /\ CloseTo(NdcExtent(1), BufW)
           ELSE CloseTo(NdcExtent(1), scaling_state.clip_rect.width)
        /\ IF Cropped(BufH, SurH)
           THEN /\ scaling_state.clip_rect.height = SurH
                /\ CloseTo(NdcExtent(2), BufH)
           ELSE CloseTo(NdcExtent(2), scaling_state.clip_rect.height)

\* a PixelPerfect result cropped in width and not in height
C16_Witness ==
    /\ op = "compute_scaling"
    /\ Cropped(BufW, SurW) /\ ~Cropped(BufH, SurH)
    /\ scaling_state.clip_rect.width < BufW
    /\ scaling_state.clip_rect.height = BufH

\* the integer window point of the last window_pos_to_pixel call
PointerX == FToInt(FFloor(arg[1]))
PointerY == FToInt(FFloor(arg[2]))
InSurface == PointerX >= 0 /\ PointerX < SurW /\ PointerY >= 0 /\ PointerY < SurH

InClip ==
    LET clip == scaling_state.clip_rect
    IN  /\ PointerX >= clip.x /\ PointerX < clip.x + clip.width
        /\ PointerY >= clip.y /\ PointerY < clip.y + clip.height
\* p is a pixel of the buffer
InBuffer(p) == p[1] >= 0 /\ p[1] < BufW /\ p[2] >= 0 /\ p[2] < BufH

\* C18: window_pos_to_pixel returns Err((floor(x), floor(y))) for every
\* position whose floor lies outside the clip rectangle; for a position
\* inside the clip it returns Ok of a pixel of the buffer or Err of computed
\* coordinates (possibly negative) outside [0,bw) x [0,bh); every Ok((px, py))
\* has px < bw and py < bh.
C18_FailureChannel ==
    op = "window_pos_to_pixel" =>
        /\ ~InClip => result = Err(<<PointerX, PointerY>>)
        /\ InClip => \/ result.tag = "Ok"
                     \/ result.tag = "Err" /\ ~InBuffer(result.value)
        /\ result.tag = "Ok" => InBuffer(result.value)

\* a position inside the clip whose computed pixel row is negative
C18_Witness ==
    /\ op = "window_pos_to_pixel"
    /\ InClip
    /\ result.tag = "Err"
    /\ result.value[2] < 0
    /\ result.value # <<PointerX, PointerY>>

\* the scaled buffer extent along one axis, limited to the surface
LimitedExtent(i) ==
    FMin(FMul(F32(<<BufW, BufH>>[i]), scaling_state.buffer_to_surface_scale),
         F32(surface_config[i]))
\* the margins before and after the clip differ by two pixels at most
Centred(origin, extent, sur) ==
    sur - extent - 2 * origin >= 0 /\ sur - extent - 2 * origin <= 2

\* C19: in Fill mode the scale is min(sw/bw, sh/bh), unfloored; the clip
\* extent is the scaled buffer extent limited to the surface (within a
\* pixel) and the clip is centred; buffer (256, 240) in surface (1000, 500)
\* gives a clip of height 500 and width 533 at x = 233.
C19_FillAspect ==
    (Computed /\ scaling_mode = "Fill") =>
        /\ scaling_state.buffer_to_surface_scale =
               FMin(FDiv(F32(SurW), F32(BufW)), FDiv(F32(SurH), F32(BufH)))
        /\ CloseTo(LimitedExtent(1), scaling_state.clip_rect.width)
        /\ CloseTo(LimitedExtent(2), scaling_state.clip_rect.height)
        /\ Centred(scaling_state.clip_rect.x, scaling_state.clip_rect.width, SurW)
        /\ Centred(scaling_state.clip_rect.y, scaling_state.clip_rect.height, SurH)
        /\ (<<BufW, BufH>> = <<256, 240>> /\ <<SurW, SurH>> = <<1000, 500>>) =>
               /\ scaling_state.clip_rect.height = 500
               /\ scaling_state.clip_rect.width = 533
               /\ scaling_state.clip_rect.x = 233

\* the scaled buffer is at least one surface pixel wide and high
ScaledToAPixel == SurW * BufH >= BufW /\ SurH * BufW >= BufH

\* C32: for every buffer and surface of at least 1x1 and both modes,
\* window_pos_to_pixel maps every position whose floor lies inside the clip
\* rectangle to Ok((px, py)) with px < bw and py < bh; on an axis that
\* PixelPerfect crops, the result is the position within the clip plus the
\* centring crop (buffer extent - clip extent) / 2.  In Fill mode a scaled
\* buffer of less than one pixel has its clip raised to one pixel, and the
\* position inside it maps to Err.
C32_VisibleMapsToPixel ==
    (op = "window_pos_to_pixel" /\ InClip) =>
        /\ result.tag = "Ok"
        /\ InBuffer(result.value)
        /\ Cropped(BufW, SurW) =>
               result.value[1] = (BufW - scaling_state.clip_rect.width) \div 2
                                   + (PointerX - scaling_state.clip_rect.x)
        /\ Cropped(BufH, SurH) =>
               result.value[2] = (BufH - scaling_state.clip_rect.height) \div 2
                                   + (PointerY - scaling_state.clip_rect.y)

\* the pair has a zero component
ZeroArea(size) == size[1] = 0 \/ size[2] = 0

\* C37: SurfaceTexture::new rejects a zero width or height, so no surface is
\* constructed on it; resize_surface with a zero width or height leaves the
\* surface size, the scaling state and the tracker as they are; both
\* dimensions of the surface of a constructed Pixstage are at least 1 after
\* any sequence of operations, and every render acquires a frame: the early
\* return for a surface of zero area is not taken.
C37_SurfaceNeverZero ==
    /\ []((op = "new" /\ ZeroArea(surface_config)) => result = "err")
    /\ [](Constructed => ~ZeroArea(surface_config))
    /\ [](op = "render" => gpu.acquires >= 1)
    /\ [][(op' = "resize_surface" /\ arg' = "zero")
            => UNCHANGED <<surface_config, scaling_state, dirty>>]_vars

\* a resize_surface with a zero dimension on a surface with a dirty tile
C37_Witness ==
    /\ op = "resize_surface" /\ arg = "zero"
    /\ ~ZeroArea(surface_config)
    /\ ~dirty.full /\ dirty.dirty_tiles > 0

(***************************************************************************)
(* SpecClip: compute_scaling applied to every small surface size, a zero   *)
(* width or height included, and to a surface size that `as f32` rounds    *)
(* up: 2^24 + 3 becomes 2^24 + 4.                                          *)
(***************************************************************************)
ClipSurfaces ==
    ((0..MaxWinSide) \X (0..MaxWinSide)) \cup {<<2^24 + 3, 2^24 + 3>>}

ClipInit == ComputeOf(ComputeBuffers \X ClipSurfaces \X ScalingModes)

ClipNext == ComputeScaling

SpecClip == ClipInit /\ [][ClipNext]_vars

\* C33: for every buffer of at least 1x1, every surface size and both
\* modes, compute_scaling returns a clip rectangle of width >= 1 and
\* height >= 1, and when the surface is at least 1x1 the clip lies inside
\* the surface.  A surface width that is not an f32 is rounded, and the
\* clip is cut to the rounded width.
C33_ValidScissor ==
    op = "compute_scaling" =>
        /\ scaling_state.clip_rect.width >= 1
        /\ scaling_state.clip_rect.height >= 1
        /\ (SurW >= 1 /\ SurH >= 1) =>
               /\ scaling_state.clip_rect.x + scaling_state.clip_rect.width <= SurW
               /\ scaling_state.clip_rect.y + scaling_state.clip_rect.height <= SurH

(***************************************************************************)
(* Properties of the stored scaling state, checked under SpecScaling.      *)
(***************************************************************************)
\* C20: after construction and after any sequence of resize_buffer,
\* resize_surface, set_scaling_mode, set_pixel, frame_mut and render calls
\* the stored ScalingState is compute_scaling(buffer size, surface size,
\* scaling mode) of the current values.
C20_ScalingDerived ==
    Constructed =>
        scaling_state = compute_scaling(<<width, height>>, surface_config, scaling_mode)

\* a resize_buffer that changed the buffer size of a surface in Fill mode to
\* one that does not fit the window by an integer factor
C20_Witness ==
    /\ op = "resize_buffer" /\ result = "ok"
    /\ scaling_mode = "Fill"
    /\ scaling_state.buffer_to_surface_scale[2] < 0
    /\ scaling_state = compute_scaling(<<width, height>>, surface_config, scaling_mode)

(***************************************************************************)
(* SpecState: the State of lib.rs, a window-sized RGBA canvas.  It is held *)
(* in the variables of the surface: width and height are size, pixels is   *)
(* pixel_buffer (one element per byte), surface_config is config.width and *)
(* config.height, scaling_state is scale, texture is diffuse_texture.  ret *)
(* is the set of byte offsets the last draw_pixel indexed (the offset it   *)
(* panicked on included), or the arguments the last submit passed to       *)
(* copy_to_texture; a panic ends the run.                                  *)
(***************************************************************************)
MaxStateSide == 2
MaxScale == 2
\* the colours drawn
Rgba8Colors == {<<255, 128, 64, 255>>}

\* State::new: the size is the inner size of the window, at least 1 x 1, and
\* the buffer is `vec![0u8; 4 * screen_width * screen_height]`
StateNew(inner_w, inner_h, scale) ==
    LET w == Max(inner_w, 1)
        h == Max(inner_h, 1)
    IN  [size |-> <<w, h>>, config |-> <<w, h>>, scale |-> scale,
         pixel_buffer |-> [n \in 1..(4 * w * h) |-> 0]]

\* State::resize: the size and the surface configuration after the call
state_resize(size, config, new_size) ==
    IF new_size[1] > 0 /\ new_size[2] > 0
    THEN [size |-> new_size, config |-> new_size]
    ELSE [size |-> size, config |-> config]

\* State::render, given what get_current_texture returns
state_render(size, acquired) ==
    IF size[1] = 0 \/ size[2] = 0
    THEN [result |-> "ok", acquires |-> 0, draws |-> 0, presents |-> 0]
    ELSE IF acquired = "frame"
         THEN [result |-> "ok", acquires |-> 1, draws |-> 1, presents |-> 1]
         ELSE [result |-> "err", acquires |-> 1, draws |-> 0, presents |-> 0]

\* State::clear_canvas
clear_canvas(buf) == [n \in 1..Len(buf) |-> 0]

\* State::draw_pixel.  Step k of the two loops has i = k div scale and
\* j = k mod scale; the slice pixel_index..pixel_index + 4 of a step panics
\* when it ends past the buffer, and the steps before it have been written.
draw_pixel(buf, w, h, scale, x, y, color) ==
    IF x < w /\ y < h
    THEN LET index == 4 * (x * scale + y * scale * w)
             pixel_index(k) == index + 4 * ((k \div scale) + (k % scale) * w)
             steps == 0..(scale * scale - 1)
             bad == {k \in steps : pixel_index(k) + 4 > Len(buf)}
             done == {k \in steps : \A b \in bad : k < b}
             reached == {k \in steps : \A b \in bad : k <= b}
         IN  [pixel_buffer |->
                 [n \in 1..Len(buf) |->
                     IF \E k \in done : n - 1 \in pixel_index(k)..(pixel_index(k) + 3)
                     THEN color[((n - 1) % 4) + 1]
                     ELSE buf[n]],
              indexed |-> UNION {pixel_index(k)..(pixel_index(k) + 3) : k \in reached},
              result |-> IF bad = {} THEN "ok" ELSE "panic"]
    ELSE [pixel_buffer |-> buf, indexed |-> {}, result |-> "ok"]

\* State::submit: the buffer length, width and height copy_to_texture is given
submit(buf, size) == <<Len(buf), size[1], size[2]>>

StateInit ==
    /\ \E iw \in 0..MaxStateSide, ih \in 0..MaxStateSide, k \in 1..MaxScale :
          LET st == StateNew(iw, ih, k)
          IN  /\ width = st.size[1]
              /\ height = st.size[2]
              /\ surface_config = st.config
              /\ scaling_state = st.scale
              /\ pixels = st.pixel_buffer
              /\ texture = create_texture(st.size[1], st.size[2])
              /\ arg = <<iw, ih, k>>
    /\ encoding = "rgba8"
    /\ scaling_mode = "none"
    /\ palette = NoPalette
    /\ gpu_palette = NoPalette
    /\ palette_dirty = FALSE
    /\ dirty = None
    /\ op = "new"
    /\ result = "ok"
    /\ ret = << >>
    /\ cap = 0
    /\ frags = << >>
    /\ hist = NoHist
    /\ consumed = NotADrain
    /\ gpu = NoCalls

\* what no method of State touches
StateFixed == <<dirty, encoding, texture, scaling_mode, scaling_state, pvars,
                cap, frags, hist, consumed>>

StateResize ==
    \E nw \in 0..MaxStateSide, nh \in 0..MaxStateSide :
        LET r == state_resize(<<width, height>>, surface_config, <<nw, nh>>)
        IN  /\ result # "panic"
            /\ width' = r.size[1]
            /\ height' = r.size[2]
            /\ surface_config' = r.config
            /\ gpu' = [NoCalls EXCEPT !.configures = IF nw > 0 /\ nh > 0 THEN 1 ELSE 0]
            /\ op' = "resize"
            /\ arg' = <<nw, nh>>
            /\ result' = "ok"
            /\ ret' = << >>
            /\ UNCHANGED <<pixels, StateFixed>>

StateRender ==
    \E acquired \in Acquisitions :
        LET r == state_render(<<width, height>>, acquired)
        IN  /\ result # "panic"
            /\ gpu' = [NoCalls EXCEPT !.acquires = r.acquires, !.draws = r.draws,
                                      !.presents = r.presents]
            /\ op' = "render"
            /\ arg' = acquired
            /\ result' = r.result
            /\ ret' = << >>
            /\ UNCHANGED <<width, height, surface_config, pixels, StateFixed>>

ClearCanvas ==
    /\ result # "panic"
    /\ pixels' = clear_canvas(pixels)
    /\ op' = "clear_canvas"
    /\ arg' = "none"
    /\ result' = "ok"
    /\ ret' = << >>
    /\ gpu' = NoCalls
    /\ UNCHANGED <<width, height, surface_config, StateFixed>>

DrawPixel ==
    \E x \in 0..MaxStateSide, y \in 0..MaxStateSide, color \in Rgba8Colors :
        LET r == draw_pixel(pixels, width, height, scaling_state, x, y, color)
        IN  /\ result # "panic"
            /\ pixels' = r.pixel_buffer
            /\ op' = "draw_pixel"
            /\ arg' = <<x, y, color>>
            /\ result' = r.result
            /\ ret' = r.indexed
            /\ gpu' = NoCalls
            /\ UNCHANGED <<width, height, surface_config, StateFixed>>

Submit ==
    /\ result # "panic"
    /\ op' = "submit"
    /\ arg' = "none"
    /\ result' = "ok"
    /\ ret' = submit(pixels, <<width, height>>)
    /\ gpu' = [NoCalls EXCEPT !.writes = 1]
    /\ UNCHANGED <<width, height, surface_config, pixels, StateFixed>>

StateNext == StateResize \/ StateRender \/ ClearCanvas \/ DrawPixel \/ Submit

SpecState == StateInit /\ [][StateNext]_vars

\* the bytes of the surface pixels px0..px0+n-1 by py0..py0+n-1 of a surface
\* w wide
BlockBytes(px0, py0, n, w) ==
    {4 * (px + py * w) + b : px \in px0..(px0 + n - 1), py \in py0..(py0 + n - 1),
                             b \in 0..3}

\* C38: draw_pixel(x, y) never indexes the pixel buffer out of range: it
\* writes nothing when x >= size.width or y >= size.height, and otherwise it
\* indexes only bytes below pixel_buffer.len(), namely the bytes of the
\* scale x scale block of surface pixels at (x * scale, y * scale), a block
\* that lies within the surface row it starts in.
C38_DrawPixelInRange ==
    op = "draw_pixel" =>
        /\ result = "ok"
        /\ \A n \in ret : n < Len(pixels)
        /\ IF arg[1] >= width \/ arg[2] >= height
           THEN ret = {}
           ELSE /\ arg[1] * scaling_state + scaling_state <= width
                /\ ret = BlockBytes(arg[1] * scaling_state, arg[2] * scaling_state,
                                    scaling_state, width)

\* C39: the pixel buffer of a State has 4 * size.width * size.height bytes
\* after new and any sequence of resize, clear_canvas, draw_pixel, submit and
\* render, and that is the length submit hands to copy_to_texture with the
\* width and height.
C39_BufferMatchesSurface ==
    /\ Len(pixels) = 4 * width * height
    /\ op = "submit" => ret = <<4 * width * height, width, height>>

\* resize with a zero width or height changes neither the size, nor the
\* configuration, nor the buffer
ZeroResizeChangesNothing ==
    [][(op' = "resize" /\ (arg'[1] = 0 \/ arg'[2] = 0))
        => UNCHANGED <<width, height, surface_config, pixels>>]_vars

\* with scale 1 draw_pixel stays in range for as long as the surface keeps
\* the size it was created with
DrawPixelAtScaleOne ==
    (scaling_state = 1 /\ Len(pixels) = 4 * width * height) => C38_DrawPixelInRange

====
